---- MODULE Spec2Model ----
(***************************************************************************)
(* Verification model of the meshviewer2 ingestion / reconciliation        *)
(* pipeline: the session store and tables of backend/database.py, the      *)
(* reconciliation handlers and the subscriber fan-out of backend/main.py,  *)
(* and the standalone MeshtasticDB store of data_management.py.            *)
(***************************************************************************)
EXTENDS Integers, Sequences, FiniteSets, TLC

VARIABLES
    \* backend/database.py: Database
    sessions,            \* rows of table sessions
    sqlite_sequence,     \* AUTOINCREMENT counter of table sessions
    current_session_id,  \* Database.current_session_id
    nodes,               \* table nodes: id -> row (id is the PRIMARY KEY)
    nodes_history,       \* table nodes_history, in insertion order
    text_messages,       \* table text_messages, in insertion order
    mesh_packets,        \* table mesh_packets, in insertion order
    links_table,         \* table network_links: <<session, from, to>> -> row
    \* backend/main.py: AppState
    meshtastic,          \* TRUE once startup_event has created the connector
    current_session,     \* state.current_session (id of the cached row)
    live_nodes,          \* state.live_nodes: id -> NodeInfo
    live_messages,       \* state.live_messages
    network_links,       \* state.network_links: <<from, to>> -> NetworkLink
    websocket_clients,   \* state.websocket_clients (a list)
    \* coroutines and connections
    task,                \* position of each task inside its operation
    ws,                  \* per connection: endpoint position, send health
    inbox,               \* per connection: the texts sent to it, in order
    seen,                \* history: the live state when a connection registered
    \* history variables
    ever_ids,            \* every session id ever created
    superseded,          \* session ids that were active when a start ran
    n_events,            \* number of events handed to process_meshtastic_data
    last,                \* what the latest event did
    escaped,             \* an exception left process_meshtastic_data
    known,               \* per node and field: latest non-null value supplied
    \* data_management.py: MeshtasticDB
    md_sessions,         \* rows of table sessions
    md_superseded,       \* history: ids deactivated by create_session
    md_packets,          \* number of rows of table mesh_packets
    node_links,          \* rows of table node_links
    link_samples,        \* history: per link key, the samples folded in
    \* backend/meshtastic_connector.py: MeshtasticConnector
    node_db,             \* self.node_db: id -> the attributes heard so far
    rx,                  \* history: the latest packet and what became of it
    \* time and the two time-window operations
    clock,               \* the wall clock, counted in half seconds
    md_tables,           \* MeshtasticDB: per table, the timestamp of each row
    cleanup,             \* cleanup_old_data: its position and what it reported
    queried              \* history: the latest get_active_nodes call

sessT == <<sessions, sqlite_sequence, current_session_id>>
sessHist == <<ever_ids, superseded>>
tablesT == <<nodes, nodes_history, text_messages, mesh_packets, links_table>>
liveT == <<live_nodes, live_messages, network_links>>
wsT == <<websocket_clients, ws, inbox, seen>>
evHist == <<n_events, last, escaped, known>>
mdT == <<md_sessions, md_superseded, md_packets, node_links, link_samples>>
connT == <<node_db, rx>>
maintT == <<clock, md_tables, cleanup, queried>>

vars == <<sessions, sqlite_sequence, current_session_id, nodes, nodes_history,
          text_messages, mesh_packets, links_table, meshtastic,
          current_session, live_nodes, live_messages, network_links,
          websocket_clients, task, ws, inbox, seen, ever_ids, superseded, n_events,
          last, escaped, known, md_sessions, md_superseded, md_packets,
          node_links, link_samples, node_db, rx, clock, md_tables, cleanup,
          queried>>

-----------------------------------------------------------------------------
(* Python None, and a key that is absent from a dict.  Optional numbers    *)
(* are integers, so both are integers outside every value range.           *)
None == -9999
Missing == -8888

(* int(datetime.now().timestamp()): a non-null stamp.                      *)
Now == 1

(* Bounds of the model.                                                    *)
MaxSessions == 3
MaxPacketRows == 1
MaxMdSessions == 2
MaxEvents == 2
MaxPackets == 3
MaxBroadcasts == 1
ReplayLen == 53
RingLen == 101
MaxRows == 2

Tasks == {"t1", "t2"}
NodeIds == {1, 2}

\* dict.get(key) and dict.get(key, default) on a value that may be Missing
Get(v) == IF v = Missing THEN None ELSE v
GetOr(v, d) == IF v = Missing THEN d ELSE v

\* d[k] = v on a dict
Put(d, k, v) == [x \in (DOMAIN d) \cup {k} |-> IF x = k THEN v ELSE d[x]]

EmptyDict == [x \in {} |-> None]

-----------------------------------------------------------------------------
(* Table sessions of backend/database.py:                                  *)
(*   id INTEGER PRIMARY KEY AUTOINCREMENT, ...,                            *)
(*   UNIQUE(is_active) ON CONFLICT REPLACE                                 *)
(* Writing a row deletes every other row that holds the same is_active.    *)

SessionRow(id, active, ended) ==
    [id |-> id, is_active |-> active, ended_at |-> ended, message_count |-> 0]

UniqueReplace(rows, new) ==
    {r \in rows : r.id # new.id /\ r.is_active # new.is_active} \cup {new}

RECURSIVE UpdateDeactivate(_, _)
\* UPDATE sessions SET is_active = FALSE, ended_at = ? WHERE <targets>
UpdateDeactivate(rows, targets) ==
    IF targets \cap {r.id : r \in rows} = {} THEN rows
    ELSE LET i == CHOOSE x \in targets \cap {r.id : r \in rows} : TRUE
             old == CHOOSE r \in rows : r.id = i
             new == [old EXCEPT !.is_active = FALSE, !.ended_at = Now]
         IN UpdateDeactivate(UniqueReplace(rows, new), targets \ {i})

ActiveIds(rows) == {r.id : r \in {x \in rows : x.is_active}}

StartSessionRowsNoUpdate(rows, newid) ==
    UniqueReplace(rows, SessionRow(newid, TRUE, None))

\* Database.start_session: the transaction (UPDATE ... ; INSERT ... ; commit)
StartSessionRows(rows, newid) ==
    UniqueReplace(UpdateDeactivate(rows, ActiveIds(rows)),
                  SessionRow(newid, TRUE, None))

\* Database.end_session: the transaction (UPDATE ... WHERE id = ?)
EndSessionRows(rows, sid) == UpdateDeactivate(rows, {sid})

\* Database.get_active_session: SELECT * ... WHERE is_active = TRUE LIMIT 1
GetActiveSession(rows) ==
    IF ActiveIds(rows) = {} THEN None
    ELSE CHOOSE i \in ActiveIds(rows) : TRUE

-----------------------------------------------------------------------------
(* The handlers of backend/main.py work on this record of everything they  *)
(* read and write; exc is the exception that ended the handler, if any.    *)

Here ==
    [sessions |-> sessions, sqlite_sequence |-> sqlite_sequence,
     current_session_id |-> current_session_id,
     nodes |-> nodes, nodes_history |-> nodes_history,
     text_messages |-> text_messages, mesh_packets |-> mesh_packets,
     links_table |-> links_table, live_nodes |-> live_nodes,
     live_messages |-> live_messages, network_links |-> network_links,
     exc |-> "none"]

Raise(s, e) == [s EXCEPT !.exc = e]

\* if not self.current_session_id: await self.start_session()
AutoStart(s) ==
    IF s.current_session_id # None THEN s
    ELSE [s EXCEPT !.sessions = StartSessionRows(@, s.sqlite_sequence + 1),
                   !.sqlite_sequence = @ + 1,
                   !.current_session_id = s.sqlite_sequence + 1]

NodeRole == {"CLIENT", "ROUTER", "REPEATER", "CLIENT_MUTE", "ROUTER_CLIENT",
             "TRACKER"}

SignalQualityInclusive(rssi) ==
    IF rssi >= -75 THEN "excellent"
    ELSE IF rssi >= -85 THEN "good"
    ELSE IF rssi >= -95 THEN "weak"
    ELSE "poor"

SignalQualityTenLower(rssi) ==
    IF rssi > -65 THEN "excellent"
    ELSE IF rssi > -75 THEN "good"
    ELSE IF rssi > -85 THEN "weak"
    ELSE "poor"

\* The if / elif chain that buckets an RSSI, written out three times in
\* main.py and once in Database.calculate_signal_quality.
SignalQualityOf(rssi) ==
    IF rssi > -75 THEN "excellent"
    ELSE IF rssi > -85 THEN "good"
    ELSE IF rssi > -95 THEN "weak"
    ELSE "poor"

\* `if rssi:` -- Python truth of an Optional[int]
Truthy(v) == v # None /\ v # 0

\* Database.calculate_signal_quality
calculate_signal_quality(rssi) ==
    IF ~Truthy(rssi) THEN "None" ELSE SignalQualityOf(rssi)

\* f"Node-{id}", the placeholder short name
NodeName(id) == 100 + id

\* pydantic validation of NodeInfo(...)
ValidNodeInfo(n) ==
    /\ n.id # None /\ n.short_name # None
    /\ n.role \in NodeRole \cup {"None"}
    /\ n.hop_count # None /\ n.last_heard # None

\* pydantic validation of TextMessage(...) and MeshPacket(...)
ValidMessage(m) ==
    /\ m.from_id # None /\ m.to_id # None /\ m.message # None
    /\ m.timestamp # None /\ m.hop_count # None

\* pydantic validation of NetworkLink(...)
ValidLink(l) ==
    /\ l.from_id # None /\ l.to_id # None
    /\ l.last_seen # None /\ l.is_direct # None

UpsertUndoesLive(s, id, dbok) ==
    Raise([s EXCEPT !.live_nodes = EmptyDict], "DatabaseError")

\* Database.upsert_node(node), node being the object held in live_nodes
upsert_node(s, id, dbok) ==
    LET s1 == AutoStart(s)
        node == [s1.live_nodes[id] EXCEPT
                    !.signal_quality = calculate_signal_quality(
                                           s1.live_nodes[id].rssi)]
        s2 == [s1 EXCEPT !.live_nodes[id] = node]
    IN IF node.last_heard = None THEN Raise(s2, "AttributeError")
       ELSE IF ~dbok THEN Raise(s2, "DatabaseError")
       ELSE [s2 EXCEPT
               !.nodes = Put(@, id, [node EXCEPT !.id = id] @@
                                    [session_id |-> s1.current_session_id]),
               !.nodes_history = Append(@,
                   [node_id |-> id, session_id |-> s1.current_session_id,
                    hop_count |-> node.hop_count])]

\* Database.save_message
save_message(s, m, dbok) ==
    LET s1 == AutoStart(s) IN
    IF ~dbok THEN Raise(s1, "DatabaseError")
    ELSE [s1 EXCEPT
            !.text_messages = Append(@,
                [session_id |-> s1.current_session_id, from_id |-> m.from_id,
                 message |-> m.message, hop_count |-> m.hop_count]),
            !.sessions = {IF r.id = s1.current_session_id
                          THEN [r EXCEPT !.message_count = @ + 1] ELSE r :
                          r \in s1.sessions}]

\* Database.save_packet
save_packet(s, p, dbok) ==
    LET s1 == AutoStart(s) IN
    IF ~dbok THEN Raise(s1, "DatabaseError")
    ELSE [s1 EXCEPT
            !.mesh_packets = Append(@,
                [session_id |-> s1.current_session_id, from_id |-> p.from_id,
                 hop_count |-> p.hop_count])]

\* Database.update_network_link: INSERT OR REPLACE on (session, from, to)
update_network_link(s, l, dbok) ==
    LET s1 == AutoStart(s) IN
    IF ~dbok THEN Raise(s1, "DatabaseError")
    ELSE [s1 EXCEPT
            !.links_table = Put(@, <<s1.current_session_id, l.from_id, l.to_id>>,
                [rssi |-> l.rssi, snr |-> l.snr,
                 success_rate |-> l.success_rate, last_seen |-> l.last_seen,
                 is_direct |-> l.is_direct])]

-----------------------------------------------------------------------------
(* Events: the dict handed to process_meshtastic_data, flattened.  id is   *)
(* node["id"], node_id or from_id, whichever the kind of event carries;    *)
(* battery_level and voltage are device_metrics' batteryLevel and voltage. *)

Blank ==
    [type |-> "Missing", id |-> Missing, to_id |-> Missing,
     short_name |-> Missing, long_name |-> Missing,
     hardware_model |-> Missing, role |-> "Missing",
     battery_level |-> Missing, voltage |-> Missing, rssi |-> Missing,
     snr |-> Missing, hop_count |-> Missing, latitude |-> Missing,
     longitude |-> Missing, altitude |-> Missing, is_direct |-> Missing,
     message |-> Missing, timestamp |-> Missing]

\* node_data.get("role", "CLIENT")
GetRole(v) == IF v = "Missing" THEN "CLIENT" ELSE v

\* handle_node_info
handle_node_info(s, d, dbok) ==
    IF d.id = Missing THEN Raise(s, "KeyError")
    ELSE IF d.id = None THEN Raise(s, "TypeError")
    ELSE IF d.timestamp = Missing THEN Raise(s, "KeyError")
    ELSE
    LET rssi == Get(d.rssi)
        node == [id |-> d.id,
                 short_name |-> GetOr(d.short_name, NodeName(d.id)),
                 long_name |-> Get(d.long_name),
                 hardware_model |-> Get(d.hardware_model),
                 role |-> GetRole(d.role),
                 battery_level |-> Get(d.battery_level),
                 voltage |-> Get(d.voltage),
                 rssi |-> rssi,
                 snr |-> Get(d.snr),
                 hop_count |-> GetOr(d.hop_count, 0),
                 latitude |-> None, longitude |-> None, altitude |-> None,
                 last_heard |-> d.timestamp,
                 is_online |-> TRUE,
                 signal_quality |-> IF Truthy(rssi) THEN SignalQualityOf(rssi)
                                    ELSE "None"]
    IN IF ~ValidNodeInfo(node) THEN Raise(s, "ValidationError")
       ELSE upsert_node([s EXCEPT !.live_nodes = Put(@, d.id, node)],
                        d.id, dbok)

handle_text_message_drop_newest(s, d, dbok) ==
    IF Missing \in {d.id, d.to_id, d.message, d.timestamp}
    THEN Raise(s, "KeyError")
    ELSE
    LET m == [from_id |-> d.id, to_id |-> d.to_id, message |-> d.message,
              timestamp |-> d.timestamp, rssi |-> Get(d.rssi),
              snr |-> Get(d.snr), hop_count |-> GetOr(d.hop_count, 0)]
        appended == Append(s.live_messages, m)
        kept == IF Len(appended) > 100 THEN SubSeq(appended, 1, 100)
                ELSE appended
    IN IF ~ValidMessage(m) THEN Raise(s, "ValidationError")
       ELSE save_message([s EXCEPT !.live_messages = kept], m, dbok)

\* handle_text_message (from_name and to_name are required keys like
\* from_id and to_id, and travel with them)
handle_text_message(s, d, dbok) ==
    IF Missing \in {d.id, d.to_id, d.message, d.timestamp}
    THEN Raise(s, "KeyError")
    ELSE
    LET m == [from_id |-> d.id, to_id |-> d.to_id, message |-> d.message,
              timestamp |-> d.timestamp, rssi |-> Get(d.rssi),
              snr |-> Get(d.snr), hop_count |-> GetOr(d.hop_count, 0)]
        appended == Append(s.live_messages, m)
        kept == IF Len(appended) > 100
                THEN SubSeq(appended, Len(appended) - 99, Len(appended))
                ELSE appended
    IN IF ~ValidMessage(m) THEN Raise(s, "ValidationError")
       ELSE save_message([s EXCEPT !.live_messages = kept], m, dbok)

PositionCreatesNode(s, d, dbok) ==
    IF d.id \in {Missing, None} \/ d.timestamp = Missing
    THEN Raise(s, "KeyError")
    ELSE upsert_node(
             [s EXCEPT !.live_nodes = Put(@, d.id,
                 [id |-> d.id, short_name |-> NodeName(d.id),
                  long_name |-> None, hardware_model |-> None,
                  role |-> "CLIENT", battery_level |-> None,
                  voltage |-> None, rssi |-> None, snr |-> None,
                  hop_count |-> 999, latitude |-> Get(d.latitude),
                  longitude |-> Get(d.longitude),
                  altitude |-> Get(d.altitude), last_heard |-> d.timestamp,
                  is_online |-> TRUE, signal_quality |-> "None"])],
             d.id, dbok)

\* handle_position_update
handle_position_update(s, d, dbok) ==
    IF d.id = Missing THEN Raise(s, "KeyError")
    ELSE IF d.id = None THEN Raise(s, "TypeError")
    ELSE IF d.id \notin DOMAIN s.live_nodes THEN s
    ELSE
    LET s1 == [s EXCEPT !.live_nodes[d.id].latitude = Get(d.latitude),
                        !.live_nodes[d.id].longitude = Get(d.longitude),
                        !.live_nodes[d.id].altitude = Get(d.altitude)]
    IN IF d.timestamp = Missing THEN Raise(s1, "KeyError")
       ELSE upsert_node([s1 EXCEPT !.live_nodes[d.id].last_heard = d.timestamp],
                        d.id, dbok)

\* handle_telemetry, the node being in live_nodes
TelemetryKnown(s, d, dbok) ==
    LET s1 == [s EXCEPT
                 !.live_nodes[d.id].battery_level = Get(d.battery_level),
                 !.live_nodes[d.id].voltage = Get(d.voltage)]
        n1 == [s1.live_nodes[d.id] EXCEPT !.last_heard = d.timestamp]
        n2 == IF Get(d.hop_count) # None
              THEN [n1 EXCEPT !.hop_count = d.hop_count] ELSE n1
        n3 == IF Get(d.rssi) # None
              THEN [n2 EXCEPT !.rssi = d.rssi,
                              !.signal_quality = SignalQualityOf(d.rssi)]
              ELSE n2
        n4 == IF Get(d.snr) # None THEN [n3 EXCEPT !.snr = d.snr] ELSE n3
    IN IF d.timestamp = Missing THEN Raise(s1, "KeyError")
       ELSE upsert_node([s1 EXCEPT !.live_nodes[d.id] = n4], d.id, dbok)

\* handle_telemetry, the node being unknown: a minimal node is created
TelemetryUnknown(s, d, dbok) ==
    LET rssi == Get(d.rssi)
        node == [id |-> d.id,
                 short_name |-> NodeName(d.id),
                 long_name |-> None, hardware_model |-> None,
                 role |-> "CLIENT",
                 battery_level |-> Get(d.battery_level),
                 voltage |-> Get(d.voltage),
                 rssi |-> rssi,
                 snr |-> Get(d.snr),
                 hop_count |-> GetOr(d.hop_count, 999),
                 latitude |-> None, longitude |-> None, altitude |-> None,
                 last_heard |-> d.timestamp,
                 is_online |-> TRUE,
                 signal_quality |-> IF Truthy(rssi) THEN SignalQualityOf(rssi)
                                    ELSE "None"]
    IN IF d.timestamp = Missing THEN Raise(s, "KeyError")
       ELSE IF ~ValidNodeInfo(node) THEN Raise(s, "ValidationError")
       ELSE upsert_node([s EXCEPT !.live_nodes = Put(@, d.id, node)],
                        d.id, dbok)

handle_telemetry(s, d, dbok) ==
    IF d.id = Missing THEN Raise(s, "KeyError")
    ELSE IF d.id = None THEN Raise(s, "TypeError")
    ELSE IF d.id \in DOMAIN s.live_nodes THEN TelemetryKnown(s, d, dbok)
    ELSE TelemetryUnknown(s, d, dbok)

\* handle_network_link
handle_network_link(s, d, dbok) ==
    IF Missing \in {d.id, d.to_id, d.timestamp} THEN Raise(s, "KeyError")
    ELSE
    LET l == [from_id |-> d.id, to_id |-> d.to_id, rssi |-> Get(d.rssi),
              snr |-> Get(d.snr), success_rate |-> 1,
              last_seen |-> d.timestamp,
              is_direct |-> GetOr(d.is_direct, 1)]
    IN IF ~ValidLink(l) THEN Raise(s, "ValidationError")
       ELSE update_network_link(
                [s EXCEPT !.network_links = Put(@, <<l.from_id, l.to_id>>, l)],
                l, dbok)

PacketIntoLiveMessages(s, d, dbok) == handle_text_message(s, d, dbok)

\* handle_mesh_packet (packet_type travels in the field message)
handle_mesh_packet(s, d, dbok) ==
    IF Missing \in {d.id, d.to_id, d.message, d.timestamp}
    THEN Raise(s, "KeyError")
    ELSE
    LET p == [from_id |-> d.id, to_id |-> d.to_id, message |-> d.message,
              timestamp |-> d.timestamp, rssi |-> Get(d.rssi),
              snr |-> Get(d.snr), hop_count |-> GetOr(d.hop_count, 0)]
    IN IF ~ValidMessage(p) THEN Raise(s, "ValidationError")
       ELSE save_packet(s, p, dbok)

\* process_meshtastic_data: the dispatch on data["type"]
Dispatch(s, d, dbok) ==
    IF d.type = "Missing" THEN Raise(s, "KeyError")
    ELSE IF d.type = "node_info" THEN handle_node_info(s, d, dbok)
    ELSE IF d.type = "text_message" THEN handle_text_message(s, d, dbok)
    ELSE IF d.type = "position_update" THEN handle_position_update(s, d, dbok)
    ELSE IF d.type = "telemetry" THEN handle_telemetry(s, d, dbok)
    ELSE IF d.type = "network_link" THEN handle_network_link(s, d, dbok)
    ELSE IF d.type = "mesh_packet" THEN handle_mesh_packet(s, d, dbok)
    ELSE s

CatchesKeyErrorOnly(e) == e = "KeyError"

\* process_meshtastic_data: `except Exception` catches every exception a
\* handler or the broadcast raises.
Catches(e) ==
    e \in {"KeyError", "TypeError", "AttributeError", "ValidationError",
           "DatabaseError", "ValueError"}

\* json.loads(json.dumps(data, default=str)): a datetime becomes its string
JsonClean(d) ==
    [d EXCEPT !.timestamp = IF d.timestamp = Missing THEN <<"absent">>
                            ELSE IF d.timestamp = None THEN <<"null">>
                            ELSE <<"str", d.timestamp>>]

\* WebSocketMessage(type=data["type"], data=clean_data, ...).dict()
Notification(d) == [type |-> d.type, data |-> JsonClean(d)]

-----------------------------------------------------------------------------
(* Subscriber fan-out (backend/main.py)                                    *)

ClientIds == {"c1", "c2", "c3"}

Range(q) == {q[i] : i \in 1..Len(q)}

\* json.dumps(message, default=str): the text that is sent
JsonDumps(m) == <<"json", m>>

\* list.remove(x): drops the first occurrence
RECURSIVE RemoveFirst(_, _)
RemoveFirst(q, x) ==
    IF q = <<>> THEN <<>>
    ELSE IF Head(q) = x THEN Tail(q)
    ELSE <<Head(q)>> \o RemoveFirst(Tail(q), x)

RECURSIVE RemoveAll(_, _)
\* for client in disconnected_clients: state.websocket_clients.remove(client)
RemoveAll(q, gone) ==
    IF gone = <<>> THEN q ELSE RemoveAll(RemoveFirst(q, Head(gone)), Tail(gone))

RECURSIVE SendLoopStopsAtFailure(_, _, _, _, _, _)
SendLoopStopsAtFailure(clients, i, inb, conn, text, gone) ==
    IF i > Len(clients) THEN [inbox |-> inb, gone |-> gone]
    ELSE IF conn[clients[i]].alive
    THEN SendLoopStopsAtFailure(clients, i + 1,
             [inb EXCEPT ![clients[i]] = Append(@, text)], conn, text, gone)
    ELSE [inbox |-> inb, gone |-> Append(gone, clients[i])]

RECURSIVE SendLoop(_, _, _, _, _, _)
\* for client in state.websocket_clients:
\*     try: await client.send_text(message_str)
\*     except: disconnected_clients.append(client)
SendLoop(clients, i, inb, conn, text, gone) ==
    IF i > Len(clients) THEN [inbox |-> inb, gone |-> gone]
    ELSE IF conn[clients[i]].alive
    THEN SendLoop(clients, i + 1,
                  [inb EXCEPT ![clients[i]] = Append(@, text)], conn, text, gone)
    ELSE SendLoop(clients, i + 1, inb, conn, text, Append(gone, clients[i]))

\* broadcast_to_clients, run without another task in between
BroadcastAll(clients, inb, conn, message) ==
    IF clients = <<>> THEN [clients |-> clients, inbox |-> inb, gone |-> <<>>]
    ELSE LET r == SendLoop(clients, 1, inb, conn, JsonDumps(message), <<>>)
         IN [clients |-> RemoveAll(clients, r.gone), inbox |-> r.inbox,
             gone |-> r.gone]

BroadcastsAlways(d, exc) == <<Notification(d)>>

\* process_meshtastic_data: the broadcast is the last statement of the try
\* block, reached only when the handler raised nothing.
Broadcasts(d, exc) == IF exc = "none" THEN <<Notification(d)>> ELSE <<>>

RECURSIVE BroadcastEach(_, _, _, _)
BroadcastEach(msgs, clients, inb, conn) ==
    IF msgs = <<>> THEN [clients |-> clients, inbox |-> inb, gone |-> <<>>]
    ELSE LET b == BroadcastAll(clients, inb, conn, Head(msgs))
             rest == BroadcastEach(Tail(msgs), b.clients, b.inbox, conn)
         IN [clients |-> rest.clients, inbox |-> rest.inbox,
             gone |-> b.gone \o rest.gone]

\* state.live_messages[-50:]
LastMessages(msgs) ==
    IF Len(msgs) > 50 THEN SubSeq(msgs, Len(msgs) - 49, Len(msgs)) ELSE msgs

\* websocket_endpoint: initial_data
InitialState ==
    [type |-> "initial_state",
     session |-> current_session,
     nodes |-> {live_nodes[n] : n \in DOMAIN live_nodes},
     messages |-> LastMessages(live_messages),
     links |-> {network_links[k] : k \in DOMAIN network_links}]

-----------------------------------------------------------------------------
(* History of what events supplied, per node and field.                    *)

IntFields == {"short_name", "long_name", "hardware_model", "battery_level",
              "voltage", "rssi", "snr", "latitude", "longitude", "altitude"}

Carried(type) ==
    IF type = "node_info"
    THEN {"short_name", "long_name", "hardware_model", "role",
          "battery_level", "voltage", "rssi", "snr"}
    ELSE IF type = "position_update" THEN {"latitude", "longitude", "altitude"}
    ELSE IF type = "telemetry" THEN {"battery_level", "voltage", "rssi", "snr"}
    ELSE {}

NothingKnown ==
    [f \in IntFields |-> None] @@ [role |-> "None"]

\* the record of latest non-null values after event d was applied
Learn(k, d) ==
    [f \in DOMAIN k |->
        IF f \notin Carried(d.type) THEN k[f]
        ELSE IF f = "role"
        THEN (IF d.role \in {"Missing", "None"} THEN k[f] ELSE d.role)
        ELSE (IF Get(d[f]) = None THEN k[f] ELSE d[f])]

\* An event counts once its handler has changed the live node and reached
\* the database write, whether or not that write succeeds.
KnownAfter(kn, d, r) ==
    IF /\ r.exc \in {"none", "DatabaseError"}
       /\ d.type \in {"node_info", "position_update", "telemetry"}
       /\ d.id \in DOMAIN r.live_nodes
    THEN Put(kn, d.id,
             Learn(IF d.id \in DOMAIN kn THEN kn[d.id] ELSE NothingKnown, d))
    ELSE kn

-----------------------------------------------------------------------------
(* Coroutines of the backend.  A task is a coroutine on the event loop; it *)
(* yields only at an await, so each action runs from one await to the next.*)

appT == <<meshtastic, current_session>>

Idle == [op |-> "idle", pc |-> "idle"]

\* The body of start_session, run by task t, which then moves to pc next.
DoStartSession(t, op, next) ==
    /\ sqlite_sequence < MaxSessions
    /\ LET newid == sqlite_sequence + 1 IN
        /\ sessions' = StartSessionRows(sessions, newid)
        /\ sqlite_sequence' = newid
        /\ current_session_id' = newid
        /\ ever_ids' = ever_ids \cup {newid}
        /\ superseded' = superseded \cup ActiveIds(sessions)
    /\ task' = [task EXCEPT ![t] = [op |-> op, pc |-> next]]

\* a direct call of Database.start_session
start_session(t) ==
    /\ task[t] = Idle
    /\ DoStartSession(t, "idle", "idle")
    /\ UNCHANGED <<appT, tablesT, liveT, wsT, evHist, mdT, connT, maintT>>

\* Database.end_session up to its commit; the early return when no session
\* is tracked leaves everything as it is.
end_session_update(t) ==
    /\ task[t] = Idle
    /\ current_session_id # None
    /\ sessions' = EndSessionRows(sessions, current_session_id)
    /\ task' = [task EXCEPT ![t] = [op |-> "end_session", pc |-> "clear"]]
    /\ UNCHANGED <<sqlite_sequence, current_session_id, sessHist, appT,
                   tablesT, liveT, wsT, evHist, mdT, connT, maintT>>

\* Database.end_session after the commit: self.current_session_id = None.
\* Inside start_new_session the three clear() calls follow without an await.
end_session_clear(t) ==
    /\ task[t].op \in {"end_session", "start_new_session"}
    /\ task[t].pc = "clear"
    /\ current_session_id' = None
    /\ IF task[t].op = "end_session"
       THEN /\ task' = [task EXCEPT ![t] = Idle]
            /\ UNCHANGED <<liveT, known>>
       ELSE /\ task' = [task EXCEPT ![t] =
                          [op |-> "start_new_session", pc |-> "start"]]
            /\ live_nodes' = EmptyDict
            /\ live_messages' = <<>>
            /\ network_links' = EmptyDict
            /\ known' = EmptyDict
    /\ UNCHANGED <<sessions, sqlite_sequence, sessHist, appT, tablesT, wsT,
                   n_events, last, escaped, mdT, connT, maintT>>

\* POST /api/session/new: await state.db.end_session(); when no session is
\* tracked end_session returns at once and the clear() calls follow.
start_new_session_end(t) ==
    /\ task[t] = Idle
    /\ meshtastic # "disconnected"
    /\ IF current_session_id = None
       THEN /\ task' = [task EXCEPT ![t] =
                          [op |-> "start_new_session", pc |-> "start"]]
            /\ live_nodes' = EmptyDict
            /\ live_messages' = <<>>
            /\ network_links' = EmptyDict
            /\ known' = EmptyDict
            /\ UNCHANGED sessions
       ELSE /\ sessions' = EndSessionRows(sessions, current_session_id)
            /\ task' = [task EXCEPT ![t] =
                          [op |-> "start_new_session", pc |-> "clear"]]
            /\ UNCHANGED <<liveT, known>>
    /\ UNCHANGED <<sqlite_sequence, current_session_id, sessHist, appT,
                   tablesT, wsT, n_events, last, escaped, mdT, connT, maintT>>

\* POST /api/session/new: session_id = await state.db.start_session()
start_new_session_start(t) ==
    /\ task[t] = [op |-> "start_new_session", pc |-> "start"]
    /\ DoStartSession(t, "start_new_session", "get")
    /\ UNCHANGED <<appT, tablesT, liveT, wsT, evHist, mdT, connT, maintT>>

\* the message start_new_session broadcasts
SessionReset(session) == [type |-> "session_reset", session |-> session]

\* POST /api/session/new:
\*   state.current_session = await state.db.get_active_session()
\*   await broadcast_to_clients({"type": "session_reset", ...})
start_new_session_get(t) ==
    /\ task[t] = [op |-> "start_new_session", pc |-> "get"]
    /\ current_session' = GetActiveSession(sessions)
    /\ LET b == BroadcastAll(websocket_clients, inbox, ws,
                             SessionReset(GetActiveSession(sessions)))
       IN /\ websocket_clients' = b.clients
          /\ inbox' = b.inbox
    /\ task' = [task EXCEPT ![t] = Idle]
    /\ UNCHANGED <<sessT, sessHist, meshtastic, tablesT, liveT, ws, seen,
                   evHist, mdT, connT, maintT>>

\* POST /api/session/new, run without another task in between
start_new_session ==
    /\ meshtastic = "connected"
    /\ \A t \in Tasks : task[t] = Idle
    /\ sqlite_sequence < MaxSessions
    /\ LET ended == IF current_session_id = None THEN sessions
                    ELSE EndSessionRows(sessions, current_session_id)
           newid == sqlite_sequence + 1
           rows == StartSessionRows(ended, newid)
           b == BroadcastAll(websocket_clients, inbox, ws,
                             SessionReset(GetActiveSession(rows)))
       IN /\ sessions' = rows
          /\ sqlite_sequence' = newid
          /\ current_session_id' = newid
          /\ ever_ids' = ever_ids \cup {newid}
          /\ superseded' = superseded \cup ActiveIds(ended)
          /\ current_session' = GetActiveSession(rows)
          /\ websocket_clients' = b.clients
          /\ inbox' = b.inbox
    /\ live_nodes' = EmptyDict
    /\ live_messages' = <<>>
    /\ network_links' = EmptyDict
    /\ known' = EmptyDict
    /\ UNCHANGED <<meshtastic, task, tablesT, ws, seen, n_events, last,
                   escaped, mdT, connT, maintT>>

\* Database.save_packet: if not self.current_session_id: ...
save_packet_check(t) ==
    /\ task[t] = Idle
    /\ Len(mesh_packets) < MaxPacketRows
    /\ task' = [task EXCEPT ![t] =
                  [op |-> "save_packet",
                   pc |-> IF current_session_id = None
                          THEN "autostart" ELSE "insert"]]
    /\ UNCHANGED <<sessT, sessHist, appT, tablesT, liveT, wsT, evHist, mdT,
                   connT, maintT>>

\* Database.save_packet: await self.start_session()
save_packet_autostart(t) ==
    /\ task[t] = [op |-> "save_packet", pc |-> "autostart"]
    /\ DoStartSession(t, "save_packet", "insert_started")
    /\ UNCHANGED <<appT, tablesT, liveT, wsT, evHist, mdT, connT, maintT>>

\* Database.save_packet: INSERT INTO mesh_packets (session_id, ...); the
\* column is NOT NULL, so a None session id raises and nothing is stored.
\* The pc is insert_started when the call has started the session itself.
save_packet_insert(t) ==
    /\ task[t].op = "save_packet"
    /\ task[t].pc \in {"insert", "insert_started"}
    /\ mesh_packets' = IF current_session_id = None THEN mesh_packets
                       ELSE Append(mesh_packets,
                                   [session_id |-> current_session_id,
                                    from_id |-> 1, hop_count |-> 0])
    /\ task' = [task EXCEPT ![t] = Idle]
    /\ UNCHANGED <<sessT, sessHist, appT, nodes, nodes_history, text_messages,
                   links_table, liveT, wsT, evHist, mdT, connT, maintT>>

\* startup_event: runs to its end before the server takes any request; an
\* exception inside is logged and swallowed.
startup_event ==
    /\ meshtastic = "None"
    /\ \A t \in Tasks : task[t] = Idle
    /\ sqlite_sequence < MaxSessions
    /\ LET newid == sqlite_sequence + 1
           rows == StartSessionRows(sessions, newid)
       IN /\ sessions' = rows
          /\ sqlite_sequence' = newid
          /\ current_session_id' = newid
          /\ ever_ids' = ever_ids \cup {newid}
          /\ superseded' = superseded \cup ActiveIds(sessions)
          /\ current_session' = GetActiveSession(rows)
    /\ meshtastic' = "connected"
    /\ UNCHANGED <<task, tablesT, liveT, wsT, evHist, mdT, connT, maintT>>

\* shutdown_event: disconnect the radio, end the session
shutdown_event ==
    /\ meshtastic = "connected"
    /\ \A t \in Tasks : task[t] = Idle
    /\ meshtastic' = "disconnected"
    /\ sessions' = IF current_session_id = None THEN sessions
                   ELSE EndSessionRows(sessions, current_session_id)
    /\ current_session_id' = None
    /\ UNCHANGED <<sqlite_sequence, sessHist, current_session, task, tablesT,
                   liveT, wsT, evHist, mdT, connT, maintT>>

-----------------------------------------------------------------------------
(* WebSocket connections                                                   *)

\* what a snapshot taken now has to show
LiveNow ==
    [session |-> current_session, live_nodes |-> live_nodes,
     live_messages |-> live_messages, network_links |-> network_links]

\* await websocket.accept()
ws_accept(c) ==
    /\ meshtastic # "None"
    /\ ws[c].pc = "new"
    /\ ws' = [ws EXCEPT ![c].pc = "accepted"]
    /\ UNCHANGED <<sessT, sessHist, appT, tablesT, liveT, websocket_clients,
                   inbox, seen, task, evHist, mdT, connT, maintT>>

ws_register_unsent(c) ==
    /\ ws[c].pc = "accepted"
    /\ websocket_clients' = Append(websocket_clients, c)
    /\ ws' = [ws EXCEPT ![c].pc = "open"]
    /\ seen' = [seen EXCEPT ![c] = <<LiveNow>>]
    /\ UNCHANGED <<sessT, sessHist, appT, tablesT, liveT, inbox, task, evHist,
                   mdT, connT, maintT>>

\* state.websocket_clients.append(websocket); build and send the snapshot.
\* A failing send is caught by `except Exception`, which removes the client.
ws_register(c) ==
    /\ ws[c].pc = "accepted"
    /\ IF ws[c].alive
       THEN /\ websocket_clients' = Append(websocket_clients, c)
            /\ inbox' = [inbox EXCEPT ![c] = Append(@, JsonDumps(InitialState))]
            /\ ws' = [ws EXCEPT ![c].pc = "open"]
       ELSE /\ websocket_clients' =
                  RemoveFirst(Append(websocket_clients, c), c)
            /\ ws' = [ws EXCEPT ![c].pc = "closed"]
            /\ UNCHANGED inbox
    /\ seen' = [seen EXCEPT ![c] = <<LiveNow>>]
    /\ UNCHANGED <<sessT, sessHist, appT, tablesT, liveT, task, evHist, mdT, connT, maintT>>

\* websocket_endpoint up to its first receive_text, run without another
\* task in between
websocket_endpoint(c) ==
    /\ meshtastic # "None"
    /\ ws[c].pc = "new"
    /\ IF ws[c].alive
       THEN /\ websocket_clients' = Append(websocket_clients, c)
            /\ inbox' = [inbox EXCEPT ![c] = Append(@, JsonDumps(InitialState))]
            /\ ws' = [ws EXCEPT ![c].pc = "open"]
       ELSE /\ websocket_clients' =
                  RemoveFirst(Append(websocket_clients, c), c)
            /\ ws' = [ws EXCEPT ![c].pc = "closed"]
            /\ UNCHANGED inbox
    /\ seen' = [seen EXCEPT ![c] = <<LiveNow>>]
    /\ UNCHANGED <<sessT, sessHist, appT, tablesT, liveT, task, evHist, mdT, connT, maintT>>

\* the peer closes: receive_text raises WebSocketDisconnect
ws_disconnect(c) ==
    /\ ws[c].pc = "open"
    /\ websocket_clients' = IF c \in Range(websocket_clients)
                            THEN RemoveFirst(websocket_clients, c)
                            ELSE websocket_clients
    /\ ws' = [ws EXCEPT ![c] = [pc |-> "closed", alive |-> FALSE]]
    /\ UNCHANGED <<sessT, sessHist, appT, tablesT, liveT, inbox, seen, task,
                   evHist, mdT, connT, maintT>>

\* the connection breaks: from now on send_text on it raises
ws_break(c) ==
    /\ ws[c].pc \in {"accepted", "open"}
    /\ ws[c].alive
    /\ ws' = [ws EXCEPT ![c].alive = FALSE]
    /\ UNCHANGED <<sessT, sessHist, appT, tablesT, liveT, websocket_clients,
                   inbox, seen, task, evHist, mdT, connT, maintT>>

-----------------------------------------------------------------------------
(* process_meshtastic_data, run for one event without another task between *)

Suffix(new, old) == SubSeq(new, Len(old) + 1, Len(new))

\* the handler's result r becomes the state
Store(r) ==
    /\ sessions' = r.sessions
    /\ sqlite_sequence' = r.sqlite_sequence
    /\ current_session_id' = r.current_session_id
    /\ nodes' = r.nodes
    /\ nodes_history' = r.nodes_history
    /\ text_messages' = r.text_messages
    /\ mesh_packets' = r.mesh_packets
    /\ links_table' = r.links_table
    /\ live_nodes' = r.live_nodes
    /\ live_messages' = r.live_messages
    /\ network_links' = r.network_links
    /\ ever_ids' = ever_ids \cup ({r.current_session_id} \ {None})
    /\ superseded' = IF r.sqlite_sequence # sqlite_sequence
                     THEN superseded \cup ActiveIds(sessions)
                     ELSE superseded

process_meshtastic_data(d, dbok) ==
    /\ meshtastic = "connected"
    /\ n_events < MaxEvents
    /\ current_session_id = None => sqlite_sequence < MaxSessions
    /\ LET r == Dispatch(Here, d, dbok)
           b == BroadcastEach(Broadcasts(d, r.exc), websocket_clients, inbox,
                              ws)
       IN /\ Store(r)
          /\ websocket_clients' = b.clients
          /\ inbox' = b.inbox
          /\ last' = [event |-> d, exc |-> r.exc,
                      clients_before |-> websocket_clients,
                      alive_before |-> {c \in ClientIds : ws[c].alive},
                      delivered |-> [c \in ClientIds |->
                                        Suffix(b.inbox[c], inbox[c])],
                      clients_after |-> b.clients,
                      failed_before |-> last.failed_before +
                                        (IF last.exc \in {"none", "init"}
                                         THEN 0 ELSE 1)]
          /\ escaped' = (escaped \/ (r.exc # "none" /\ ~Catches(r.exc)))
          /\ known' = KnownAfter(known, d, r)
    /\ n_events' = n_events + 1
    /\ UNCHANGED <<appT, task, ws, seen, mdT, connT, maintT>>

-----------------------------------------------------------------------------
(* MeshtasticDB (data_management.py): sessions                             *)

MdActiveIds(rows) == {r.id : r \in {x \in rows : x.is_active = 1}}

MdNextId(rows) ==
    IF rows = {} THEN 1
    ELSE (CHOOSE m \in {r.id : r \in rows} :
              \A r \in rows : r.id <= m) + 1

MdSessionRow(rows, name) ==
    [id |-> MdNextId(rows), name |-> name, is_active |-> 1, end_time |-> None]

CreateSessionRowsNoUpdate(rows, name) ==
    rows \cup {MdSessionRow(rows, name)}

\* MeshtasticDB.create_session: UPDATE ... WHERE is_active = 1; INSERT ...
CreateSessionRows(rows, name) ==
    {IF r.is_active = 1
     THEN [r EXCEPT !.is_active = 0, !.end_time = Now] ELSE r : r \in rows}
    \cup {MdSessionRow(rows, name)}

create_session(name) ==
    /\ Cardinality(md_sessions) < MaxMdSessions
    /\ md_sessions' = CreateSessionRows(md_sessions, name)
    /\ md_superseded' = md_superseded \cup MdActiveIds(md_sessions)
    /\ UNCHANGED <<sessT, sessHist, appT, tablesT, liveT, wsT, task, evHist,
                   connT, maintT, md_packets, node_links, link_samples>>

\* MeshtasticDB.get_active_session_id: creates "Default Session" when no
\* row is active, otherwise only reads.
get_active_session_id ==
    /\ MdActiveIds(md_sessions) = {}
    /\ Cardinality(md_sessions) < MaxMdSessions
    /\ md_sessions' = CreateSessionRows(md_sessions, "Default Session")
    /\ UNCHANGED <<sessT, sessHist, appT, tablesT, liveT, wsT, task, evHist,
                   connT, maintT, md_superseded, md_packets, node_links,
                   link_samples>>

-----------------------------------------------------------------------------
(* MeshtasticDB: node_links.  A mean is a fraction <<numerator,            *)
(* denominator>> in lowest terms with a positive denominator.              *)

Abs(x) == IF x < 0 THEN -x ELSE x

RECURSIVE GCD(_, _)
GCD(a, b) == IF b = 0 THEN a ELSE GCD(b, a % b)

Frac(n, d) ==
    LET g == GCD(Abs(n), d) IN <<n \div g, d \div g>>

FoldMeanLatest(avg, n, x) == Frac(x, 1)

\* new_avg = ((existing_avg * existing_count) + x) / count
FoldMean(avg, n, x) == Frac(avg[1] * n + x * avg[2], avg[2] * (n + 1))

MatchingNone(rows, sid, from, to) == {}

\* WHERE session_id = ? AND from_node = ? AND to_node = ?
Matching(rows, sid, from, to) ==
    {i \in 1..Len(rows) : /\ rows[i].session_id = sid
                          /\ rows[i].from_node = from
                          /\ rows[i].to_node = to}

\* MeshtasticDB._update_node_link
UpdateNodeLink(rows, from, to, rssi, snr, hop_count, sid) ==
    LET hit == Matching(rows, sid, from, to) IN
    IF hit # {}
    THEN LET existing == rows[CHOOSE i \in hit : \A j \in hit : i <= j]
             count == existing.packet_count + 1
             new == [packet_count |-> count,
                     avg_rssi |-> FoldMean(existing.avg_rssi,
                                           existing.packet_count, rssi),
                     avg_snr |-> FoldMean(existing.avg_snr,
                                          existing.packet_count, snr),
                     avg_hop_count |-> FoldMean(existing.avg_hop_count,
                                                existing.packet_count,
                                                hop_count),
                     is_direct |-> hop_count <= 1]
         IN [i \in 1..Len(rows) |->
                IF i \in hit
                THEN [rows[i] EXCEPT !.packet_count = new.packet_count,
                                     !.avg_rssi = new.avg_rssi,
                                     !.avg_snr = new.avg_snr,
                                     !.avg_hop_count = new.avg_hop_count,
                                     !.is_direct = new.is_direct]
                ELSE rows[i]]
    ELSE Append(rows,
                [session_id |-> sid, from_node |-> from, to_node |-> to,
                 packet_count |-> 1, avg_rssi |-> Frac(rssi, 1),
                 avg_snr |-> Frac(snr, 1),
                 avg_hop_count |-> Frac(hop_count, 1),
                 is_direct |-> hop_count <= 1])

\* MeshPacket(packet_id, from_node, to_node, hop_limit, rx_rssi, rx_snr)
\* hop_start keeps its default, hop_start: int = 3
Packet(from, to, rssi, snr, hops) ==
    [from_node |-> from, to_node |-> to, rx_rssi |-> rssi, rx_snr |-> snr,
     hop_limit |-> hops, hop_start |-> 3]

Packets ==
    {Packet(1, 2, -60, 5, 3), Packet(1, 2, -80, 8, 1),
     Packet(1, 2, -71, 6, 0), Packet(2, 1, -90, 2, 3)}

\* MeshtasticDB.insert_packet(packet): the session is looked up (and created
\* when none is active) first; the packet row and the link update are one
\* transaction, and an error before conn.commit() rolls both back.
insert_packet(p, ok) ==
    /\ md_packets < MaxPackets
    /\ MdActiveIds(md_sessions) = {} =>
           Cardinality(md_sessions) < MaxMdSessions
    /\ LET rows == IF MdActiveIds(md_sessions) = {}
                   THEN CreateSessionRows(md_sessions, "Default Session")
                   ELSE md_sessions
           sid == CHOOSE i \in MdActiveIds(rows) : TRUE
           key == <<sid, p.from_node, p.to_node>>
       IN /\ md_sessions' = rows
          /\ IF ok
             THEN /\ md_packets' = md_packets + 1
                  /\ node_links' = UpdateNodeLink(node_links, p.from_node,
                                       p.to_node, p.rx_rssi, p.rx_snr,
                                       p.hop_limit, sid)
                  /\ link_samples' =
                        Put(link_samples, key,
                            Append(IF key \in DOMAIN link_samples
                                   THEN link_samples[key] ELSE <<>>,
                                   [rssi |-> p.rx_rssi, snr |-> p.rx_snr,
                                    hop_count |-> p.hop_limit,
                                    hop_start |-> p.hop_start,
                                    hop_limit |-> p.hop_limit]))
             ELSE UNCHANGED <<md_packets, node_links, link_samples>>
    /\ UNCHANGED <<sessT, sessHist, appT, tablesT, liveT, wsT, task, evHist,
                   connT, maintT, md_superseded>>

-----------------------------------------------------------------------------
(* MeshtasticConnector (backend/meshtastic_connector.py): a received       *)
(* packet becomes a network_link event and an event of its own kind.       *)

\* self.local_node_id once on_connection has run
local_node_id == 9

\* 'broadcast', the to_id of a packet addressed to ^all or to nobody
BroadcastId == 0

\* a packet as the radio library hands it over; a key the packet does not
\* carry is Missing
RawPacket(from, to, portnum, hopStart, hopLimit, rxRssi) ==
    [from |-> from, to |-> to, portnum |-> portnum, hopStart |-> hopStart,
     hopLimit |-> hopLimit, rxRssi |-> rxRssi, rxSnr |-> Missing,
     shortName |-> Missing, batteryLevel |-> Missing, text |-> Missing,
     latitudeI |-> Missing]

\* packet.get(a) or packet.get(b): an absent, null or zero value gives None
OrNone(v) == IF v = Missing \/ v = None \/ v = 0 THEN None ELSE v

\* from_id = str(from_id) if from_id else self.local_node_id
FromId(p) == IF OrNone(p.from) = None THEN local_node_id ELSE p.from

\* to_id: '^all' when the packet names nobody, and then 'broadcast'
ToId(p) == IF OrNone(p.to) = None THEN BroadcastId ELSE p.to

HopCountLogged(p) ==
    IF GetOr(p.hopStart, 0) > 0
    THEN GetOr(p.hopStart, 0) - GetOr(p.hopLimit, 0) ELSE 0

\* on_receive: hop_count = hop_start - hop_limit if hop_start > 0 else None
HopCount(p) ==
    IF GetOr(p.hopStart, 0) > 0
    THEN GetOr(p.hopStart, 0) - GetOr(p.hopLimit, 0) ELSE None

\* an entry of node_db before anything was heard of the node
NoEntry ==
    [short_name |-> Missing, long_name |-> Missing,
     hardware_model |-> Missing, role |-> "Missing",
     battery_level |-> Missing, voltage |-> Missing, latitude |-> Missing]

EntryOf(db, id) == IF id \in DOMAIN db THEN db[id] ELSE NoEntry

\* process_position / process_node_info / process_telemetry: what the
\* packet adds to node_db[from_id].  '' and 'UNSET' are written 0.
NodeDbAfter(db, p) ==
    LET id == FromId(p)
        e == EntryOf(db, id)
    IN IF p.portnum = "POSITION_APP"
       THEN Put(db, id, [e EXCEPT !.latitude = Get(p.latitudeI)])
       ELSE IF p.portnum = "NODEINFO_APP"
       THEN Put(db, id, [e EXCEPT
                            !.short_name = GetOr(p.shortName, NodeName(id)),
                            !.long_name = 0, !.hardware_model = 0,
                            !.role = "CLIENT"])
       ELSE IF p.portnum = "TELEMETRY_APP"
       THEN Put(db, id, [e EXCEPT !.battery_level = Get(p.batteryLevel),
                                  !.voltage = None])
       ELSE db

\* process_text_message, process_position, process_node_info,
\* process_telemetry, process_generic_packet: the event without the
\* common packet info
ProcessPacket(db, p) ==
    LET id == FromId(p)
        e == EntryOf(db, id)
        ev == [Blank EXCEPT !.id = id, !.timestamp = Now]
    IN IF p.portnum = "TEXT_MESSAGE_APP"
       THEN [ev EXCEPT !.type = "text_message", !.to_id = ToId(p),
                       !.message = GetOr(p.text, 0)]
       ELSE IF p.portnum = "POSITION_APP"
       THEN [ev EXCEPT !.type = "position_update",
                       !.latitude = Get(e.latitude), !.longitude = None,
                       !.altitude = 0]
       ELSE IF p.portnum = "NODEINFO_APP"
       THEN [ev EXCEPT !.type = "node_info", !.short_name = e.short_name,
                       !.long_name = e.long_name,
                       !.hardware_model = e.hardware_model,
                       !.role = e.role, !.battery_level = e.battery_level,
                       !.voltage = e.voltage]
       ELSE IF p.portnum = "TELEMETRY_APP"
       THEN [ev EXCEPT !.type = "telemetry",
                       !.battery_level = p.batteryLevel]
       ELSE [ev EXCEPT !.type = "mesh_packet", !.to_id = ToId(p),
                       !.message = 1]

\* on_receive: data.update({"rssi": ..., "snr": ..., "hop_count": ...})
DataOf(db, p) ==
    [ProcessPacket(db, p) EXCEPT !.rssi = OrNone(p.rxRssi),
                                 !.snr = OrNone(p.rxSnr),
                                 !.hop_count = HopCount(p)]

\* "is_direct": packet_data.get("hop_count") == 1
IsDirect(hop_count) == IF hop_count = 1 THEN 1 ELSE 0

\* MeshtasticConnector.update_network_link: link_data
LinkData(p, data) ==
    [Blank EXCEPT !.type = "network_link", !.id = FromId(p),
                  !.to_id = ToId(p), !.rssi = Get(data.rssi),
                  !.snr = Get(data.snr),
                  !.is_direct = IsDirect(Get(data.hop_count)),
                  !.timestamp = Now]

NoPacket == <<>>

-----------------------------------------------------------------------------
(* Time.  The wall clock is counted in half seconds, so that a datetime    *)
(* can fall between two whole seconds; the stamp Now is 0.5 s.             *)

\* one second and one day, in half seconds
Second == 2
Day == 86400 * Second

\* int(time.time()), int(dt.timestamp()): the whole seconds of a time,
\* cut off towards zero
int(t) == IF t >= 0 THEN t \div Second ELSE 0 - ((0 - t) \div Second)

\* two of the tables cleanup_old_data goes through, in the order of its
\* list: position_history is the first, text_messages comes later
MdTables == <<"position_history", "text_messages">>

NoRows == [tbl \in Range(MdTables) |-> <<>>]

\* cleanup_old_data has not been called
NoCleanup ==
    [pc |-> "idle", cutoff_time |-> None, count_before |-> None,
     at_delete |-> NoRows, deleted_counts |-> EmptyDict]

\* get_active_nodes has not been called
NoQuery ==
    [asked |-> FALSE, now |-> None, since_seconds |-> None,
     session |-> None, rows |-> EmptyDict, result |-> <<>>]

-----------------------------------------------------------------------------
(* Events fed to the pipeline                                              *)

Event(type, id) == [Blank EXCEPT !.type = type, !.id = id, !.timestamp = Now]

\* a node_info that carries every attribute
NodeInfoFull(id, rssi) ==
    [Event("node_info", id) EXCEPT
        !.short_name = 10 + id, !.long_name = 20 + id, !.hardware_model = 7,
        !.role = "ROUTER", !.battery_level = 80, !.voltage = 4,
        !.rssi = rssi, !.snr = 5, !.hop_count = 1]

\* a telemetry that carries every metric
TelemetryFull(id, rssi) ==
    [Event("telemetry", id) EXCEPT
        !.battery_level = 50, !.voltage = 3, !.rssi = rssi, !.snr = 2,
        !.hop_count = 2]

TextMessage(from, to, text) ==
    [Event("text_message", from) EXCEPT !.to_id = to, !.message = text]

Events ==
    {NodeInfoFull(1, -70),
     Event("node_info", 1),
     [Event("node_info", 1) EXCEPT !.hop_count = None],
     TelemetryFull(1, -90),
     Event("telemetry", 1),
     Event("telemetry", 2),
     [Event("telemetry", 1) EXCEPT !.timestamp = Missing],
     [Event("position_update", 1) EXCEPT
         !.latitude = 10, !.longitude = 20, !.altitude = 30],
     [Event("position_update", 1) EXCEPT !.latitude = 11],
     TextMessage(1, 2, 7),
     [Event("network_link", 1) EXCEPT !.to_id = 2, !.rssi = -70],
     [Event("mesh_packet", 1) EXCEPT !.to_id = 2, !.message = 3],
     Event("connection_lost", Missing),
     Blank}

NoEvent ==
    [event |-> Blank, exc |-> "init", clients_before |-> <<>>,
     alive_before |-> {}, delivered |-> [c \in ClientIds |-> <<>>],
     clients_after |-> <<>>, failed_before |-> 0]

-----------------------------------------------------------------------------
\* The state after construction: Database.__init__, AppState.__init__,
\* MeshtasticDB on an empty file, no task running, no connection.
Init ==
    /\ sessions = {}
    /\ sqlite_sequence = 0
    /\ current_session_id = None
    /\ nodes = EmptyDict
    /\ nodes_history = <<>>
    /\ text_messages = <<>>
    /\ mesh_packets = <<>>
    /\ links_table = EmptyDict
    /\ meshtastic = "None"
    /\ current_session = None
    /\ live_nodes = EmptyDict
    /\ live_messages = <<>>
    /\ network_links = EmptyDict
    /\ websocket_clients = <<>>
    /\ task = [t \in Tasks |-> Idle]
    /\ ws = [c \in ClientIds |-> [pc |-> "new", alive |-> TRUE]]
    /\ inbox = [c \in ClientIds |-> <<>>]
    /\ seen = [c \in ClientIds |-> <<>>]
    /\ ever_ids = {}
    /\ superseded = {}
    /\ n_events = 0
    /\ last = NoEvent
    /\ escaped = FALSE
    /\ known = EmptyDict
    /\ md_sessions = {}
    /\ md_superseded = {}
    /\ md_packets = 0
    /\ node_links = <<>>
    /\ link_samples = EmptyDict
    /\ node_db = EmptyDict
    /\ rx = NoPacket
    /\ clock = Now
    /\ md_tables = NoRows
    /\ cleanup = NoCleanup
    /\ queried = NoQuery

\* The reconciliation pipeline: events are handled one after another, next
\* to session resets and the shutdown.
Next ==
    \/ startup_event
    \/ \E d \in Events, dbok \in BOOLEAN : process_meshtastic_data(d, dbok)
    \/ start_new_session
    \/ shutdown_event

Spec == Init /\ [][Next]_vars

\* The two session stores under every interleaving of their operations.
NextSession ==
    \/ \E t \in Tasks : start_session(t)
    \/ \E t \in Tasks : end_session_update(t)
    \/ \E t \in Tasks : end_session_clear(t)
    \/ \E t \in Tasks : start_new_session_end(t)
    \/ \E t \in Tasks : start_new_session_start(t)
    \/ \E t \in Tasks : start_new_session_get(t)
    \/ \E t \in Tasks : save_packet_check(t)
    \/ \E t \in Tasks : save_packet_autostart(t)
    \/ \E t \in Tasks : save_packet_insert(t)
    \/ create_session("Field Test")
    \/ get_active_session_id

SpecSession == Init /\ [][NextSession]_vars

\* Fan-out: subscribers connect, break and leave between events; each
\* event's handling and broadcast run without another task in between.
BroadcastEvents ==
    {TextMessage(1, 2, 7),
     [TextMessage(1, 2, 7) EXCEPT !.hop_count = None],
     Event("connection_lost", Missing)}

\* one event of the fan-out scenario
broadcast_event(d, dbok) ==
    /\ n_events < MaxBroadcasts
    /\ process_meshtastic_data(d, dbok)

NextBroadcast ==
    \/ startup_event
    \/ \E d \in BroadcastEvents, dbok \in BOOLEAN : broadcast_event(d, dbok)
    \/ \E c \in ClientIds : websocket_endpoint(c)
    \/ \E c \in ClientIds : ws_disconnect(c)
    \/ \E c \in ClientIds : ws_break(c)

SpecBroadcast == Init /\ [][NextBroadcast]_vars

\* Signal quality: identity and telemetry events over the RSSI values on
\* both sides of every threshold, zero and a positive value.
RssiValues == {-96, -95, -94, -86, -85, -84, -76, -75, -74, 0, 5}

SignalEvents ==
    {NodeInfoFull(1, r) : r \in RssiValues} \cup
    {TelemetryFull(id, r) : id \in NodeIds, r \in RssiValues} \cup
    {Event("node_info", 1), Event("telemetry", 1)}

NextSignal ==
    \/ startup_event
    \/ \E d \in SignalEvents, dbok \in BOOLEAN :
           process_meshtastic_data(d, dbok)

SpecSignal == Init /\ [][NextSignal]_vars

\* The MeshtasticDB store: packets, and with them link samples, arrive
\* while sessions are created.
NextLink ==
    \/ \E p \in Packets, ok \in BOOLEAN : insert_packet(p, ok)
    \/ create_session("Field Test")
    \/ get_active_session_id

SpecLink == Init /\ [][NextLink]_vars

-----------------------------------------------------------------------------
(* Fan-out under interleaving: events are handled by tasks that the        *)
(* connector creates, each broadcast yields at every send, and connections *)
(* accept, register, break and close in between.                           *)

\* the n-th event of the input stream: one node, one link, then texts
FanoutStream(n) ==
    IF n = 1 THEN NodeInfoFull(1, -70)
    ELSE IF n = 2 THEN [Event("network_link", 1) EXCEPT !.to_id = 2,
                                                       !.rssi = -70]
    ELSE TextMessage(1, 2, n)

\* the handlers' state once startup_event has run
Started ==
    [sessions |-> {SessionRow(1, TRUE, None)}, sqlite_sequence |-> 1,
     current_session_id |-> 1,
     nodes |-> EmptyDict, nodes_history |-> <<>>, text_messages |-> <<>>,
     mesh_packets |-> <<>>, links_table |-> EmptyDict,
     live_nodes |-> EmptyDict, live_messages |-> <<>>,
     network_links |-> EmptyDict, exc |-> "none"]

RECURSIVE ReplayFrom(_, _, _)
\* the handlers' state after events lo..hi of the stream, starting from s
ReplayFrom(s, lo, hi) ==
    IF hi < lo THEN s
    ELSE LET before == ReplayFrom(s, lo, hi - 1)
         IN IF before.exc # "none" THEN before
            ELSE Dispatch(before, FanoutStream(hi), TRUE)

\* the replay, cut into three runs
Replayed20 == ReplayFrom(Started, 1, 20)
Replayed40 == ReplayFrom(Replayed20, 21, 40)
Replayed == ReplayFrom(Replayed40, 41, ReplayLen)

\* the state after startup and ReplayLen events, no subscriber connected
InitFanout ==
    LET r == Replayed IN
    /\ sessions = r.sessions
    /\ sqlite_sequence = r.sqlite_sequence
    /\ current_session_id = r.current_session_id
    /\ nodes = r.nodes
    /\ nodes_history = r.nodes_history
    /\ text_messages = r.text_messages
    /\ mesh_packets = r.mesh_packets
    /\ links_table = r.links_table
    /\ meshtastic = "connected"
    /\ current_session = 1
    /\ live_nodes = r.live_nodes
    /\ live_messages = r.live_messages
    /\ network_links = r.network_links
    /\ websocket_clients = <<>>
    /\ task = [t \in Tasks |-> Idle]
    /\ ws = [c \in ClientIds |-> [pc |-> "new", alive |-> TRUE]]
    /\ inbox = [c \in ClientIds |-> <<>>]
    /\ seen = [c \in ClientIds |-> <<>>]
    /\ ever_ids = {1}
    /\ superseded = {}
    /\ n_events = ReplayLen
    /\ last = [NoEvent EXCEPT !.event = FanoutStream(ReplayLen),
                              !.exc = "none"]
    /\ escaped = FALSE
    /\ known = KnownAfter(EmptyDict, FanoutStream(1), r)
    /\ md_sessions = {}
    /\ md_superseded = {}
    /\ md_packets = 0
    /\ node_links = <<>>
    /\ link_samples = EmptyDict
    /\ node_db = EmptyDict
    /\ rx = NoPacket
    /\ clock = Now
    /\ md_tables = NoRows
    /\ cleanup = NoCleanup
    /\ queried = NoQuery

\* process_meshtastic_data in task t, up to the call of broadcast_to_clients
handle_event(t, dbok) ==
    /\ meshtastic = "connected"
    /\ task[t] = Idle
    /\ n_events < ReplayLen + MaxBroadcasts
    /\ current_session_id = None => sqlite_sequence < MaxSessions
    /\ LET d == FanoutStream(n_events + 1)
           r == Dispatch(Here, d, dbok)
       IN /\ Store(r)
          /\ task' = [task EXCEPT ![t] =
                        IF r.exc # "none" THEN Idle
                        ELSE [op |-> "broadcast", pc |-> "start", i |-> 1,
                              text |-> JsonDumps(Notification(d)),
                              gone |-> <<>>,
                              began |-> {},
                              tried |-> <<>>]]
          /\ last' = [event |-> d, exc |-> r.exc,
                      clients_before |-> websocket_clients,
                      alive_before |-> {c \in ClientIds : ws[c].alive},
                      delivered |-> [c \in ClientIds |-> <<>>],
                      clients_after |-> websocket_clients,
                      failed_before |-> last.failed_before +
                                        (IF last.exc \in {"none", "init"}
                                         THEN 0 ELSE 1)]
          /\ escaped' = (escaped \/ (r.exc # "none" /\ ~Catches(r.exc)))
          /\ known' = KnownAfter(known, d, r)
    /\ n_events' = n_events + 1
    /\ UNCHANGED <<appT, wsT, mdT, connT, maintT>>

RECURSIVE RemoveEach(_, _)
\* for client in disconnected_clients: state.websocket_clients.remove(client)
\* list.remove raises ValueError when the client has left the list meanwhile
RemoveEach(q, gone) ==
    IF gone = <<>> THEN [clients |-> q, exc |-> "none"]
    ELSE IF Head(gone) \notin Range(q) THEN [clients |-> q, exc |-> "ValueError"]
    ELSE RemoveEach(RemoveFirst(q, Head(gone)), Tail(gone))

\* broadcast_to_clients in task t, from one await to the next: the early
\* return, one send, or the end of the loop and the removals.  began (the
\* list when the broadcast was called) and tried (the clients send_text was
\* called on) record what the loop did.
broadcast_step(t) ==
    /\ task[t].op = "broadcast"
    /\ IF task[t].pc = "start" /\ websocket_clients = <<>>
       THEN /\ task' = [task EXCEPT ![t] = Idle]
            /\ UNCHANGED <<websocket_clients, inbox, escaped>>
       ELSE IF task[t].i > Len(websocket_clients)
       THEN LET res == RemoveEach(websocket_clients, task[t].gone) IN
            /\ websocket_clients' = res.clients
            /\ escaped' = (escaped \/ (res.exc # "none" /\ ~Catches(res.exc)))
            /\ task' = [task EXCEPT ![t] = Idle]
            /\ UNCHANGED inbox
       ELSE LET c == websocket_clients[task[t].i] IN
            /\ inbox' = IF ws[c].alive
                        THEN [inbox EXCEPT ![c] = Append(@, task[t].text)]
                        ELSE inbox
            /\ task' = [task EXCEPT ![t].pc = "send", ![t].i = @ + 1,
                                    ![t].gone = IF ws[c].alive THEN @
                                                ELSE Append(@, c),
                                    ![t].tried = Append(@, c),
                                    ![t].began =
                                        IF task[t].pc = "start"
                                        THEN Range(websocket_clients) ELSE @]
            /\ UNCHANGED <<websocket_clients, escaped>>
    /\ UNCHANGED <<sessT, sessHist, appT, tablesT, liveT, ws, seen, n_events,
                   last, known, mdT, connT, maintT>>

\* the connections that take part
FanoutClients == {"c1", "c2"}

NextFanout ==
    \/ \E t \in Tasks, dbok \in BOOLEAN : handle_event(t, dbok)
    \/ \E t \in Tasks : broadcast_step(t)
    \/ \E c \in FanoutClients : ws_accept(c)
    \/ \E c \in FanoutClients : ws_register(c)
    \/ \E c \in FanoutClients : ws_disconnect(c)
    \/ \E c \in FanoutClients : ws_break(c)

SpecFanout == InitFanout /\ [][NextFanout]_vars


-----------------------------------------------------------------------------
(* Packets from the radio: on_receive builds the events and hands each to  *)
(* process_meshtastic_data as a task; the tasks start in the order they    *)
(* were created, the link event first.                                     *)

RawPackets ==
    {[RawPacket(1, 2, "NODEINFO_APP", 3, 3, -70) EXCEPT !.shortName = 11],
     RawPacket(1, Missing, "NODEINFO_APP", Missing, Missing, -80),
     [RawPacket(1, 2, "TELEMETRY_APP", 3, 2, -90) EXCEPT !.batteryLevel = 50],
     RawPacket(2, Missing, "TELEMETRY_APP", Missing, Missing, -60),
     RawPacket(2, 1, "TELEMETRY_APP", 3, 1, Missing),
     [RawPacket(1, 2, "TEXT_MESSAGE_APP", 3, 3, -70) EXCEPT !.text = 7],
     [RawPacket(1, Missing, "TEXT_MESSAGE_APP", 0, 0, -70) EXCEPT !.text = 7],
     [RawPacket(1, 2, "POSITION_APP", 3, 2, -70) EXCEPT !.latitudeI = 10],
     RawPacket(2, 1, "ROUTING_APP", 3, 0, -99),
     RawPacket(Missing, Missing, "NODEINFO_APP", Missing, Missing, Missing)}

\* what broadcast_to_clients did with the message of one event
Sent(d, exc, clients, inb) ==
    BroadcastEach(Broadcasts(d, exc), clients, inb, ws)

\* MeshtasticConnector.on_receive for packet p, followed by the tasks it
\* created; dbok says whether the database takes writes while they run.
on_receive(p, dbok) ==
    /\ meshtastic = "connected"
    /\ n_events < 2 * MaxEvents
    /\ current_session_id = None => sqlite_sequence < MaxSessions
    /\ LET db == NodeDbAfter(node_db, p)
           data == DataOf(db, p)
           linked == FromId(p) # local_node_id
           link == LinkData(p, data)
           r1 == IF linked THEN Dispatch(Here, link, dbok) ELSE Here
           b1 == IF linked THEN Sent(link, r1.exc, websocket_clients, inbox)
                 ELSE [clients |-> websocket_clients, inbox |-> inbox]
           r2 == Dispatch([r1 EXCEPT !.exc = "none"], data, dbok)
           b2 == Sent(data, r2.exc, b1.clients, b1.inbox)
       IN /\ node_db' = db
          /\ Store(r2)
          /\ websocket_clients' = b2.clients
          /\ inbox' = b2.inbox
          /\ last' = [event |-> data, exc |-> r2.exc,
                      clients_before |-> b1.clients,
                      alive_before |-> {c \in ClientIds : ws[c].alive},
                      delivered |-> [c \in ClientIds |->
                                        Suffix(b2.inbox[c], b1.inbox[c])],
                      clients_after |-> b2.clients,
                      failed_before |-> last.failed_before +
                                        (IF last.exc \in {"none", "init"}
                                         THEN 0 ELSE 1) +
                                        (IF r1.exc = "none" THEN 0 ELSE 1)]
          /\ escaped' = (\/ escaped
                         \/ (r1.exc # "none" /\ ~Catches(r1.exc))
                         \/ (r2.exc # "none" /\ ~Catches(r2.exc)))
          /\ known' = KnownAfter(known, data, r2)
          /\ rx' = <<[packet |-> p, hop_count |-> HopCount(p),
                      linked |-> linked, link |-> link, link_exc |-> r1.exc,
                      data |-> data,
                      known_before |-> FromId(p) \in DOMAIN live_nodes]>>
          /\ n_events' = n_events + (IF linked THEN 2 ELSE 1)
    /\ UNCHANGED <<appT, task, ws, seen, mdT, maintT>>

NextConnector ==
    \/ startup_event
    \/ \E p \in RawPackets, dbok \in BOOLEAN : on_receive(p, dbok)

SpecConnector == Init /\ [][NextConnector]_vars

-----------------------------------------------------------------------------
(* Events as concurrent tasks.  on_receive hands every event to            *)
(* asyncio.create_task, so the handling of one event can be suspended at   *)
(* an await of upsert_node while another event, or a session reset, runs.  *)
(* The events here are node_info events: each builds a NodeInfo object of  *)
(* its own, which nothing but its own task changes afterwards.             *)

TaskEvents == {NodeInfoFull(id, -70) : id \in NodeIds}

\* process_meshtastic_data -> handle_node_info -> upsert_node, up to the
\* first await: the node replaces the live one, and the call goes on to
\* start a session when none is tracked.  The event is stamped on arrival;
\* began_in is the session tracked when the handler started.
node_info_begin(t, d) ==
    /\ task[t] = Idle
    /\ meshtastic = "connected"
    /\ n_events < MaxEvents
    /\ LET ev == [d EXCEPT !.timestamp = n_events + 1]
           r == handle_node_info(Here, ev, FALSE)
       IN /\ live_nodes' = r.live_nodes
          /\ task' = [task EXCEPT ![t] =
                        [op |-> "node_info",
                         pc |-> IF current_session_id = None
                                THEN "autostart" ELSE "write",
                         event |-> ev, node |-> r.live_nodes[ev.id],
                         began_in |-> current_session_id]]
    /\ n_events' = n_events + 1
    /\ UNCHANGED <<sessT, sessHist, appT, tablesT, live_messages,
                   network_links, wsT, last, escaped, known, mdT, connT, maintT>>

\* Database.upsert_node: await self.start_session()
upsert_node_autostart(t) ==
    /\ task[t].op = "node_info"
    /\ task[t].pc = "autostart"
    /\ sqlite_sequence < MaxSessions
    /\ sessions' = StartSessionRows(sessions, sqlite_sequence + 1)
    /\ sqlite_sequence' = sqlite_sequence + 1
    /\ current_session_id' = sqlite_sequence + 1
    /\ ever_ids' = ever_ids \cup {sqlite_sequence + 1}
    /\ superseded' = superseded \cup ActiveIds(sessions)
    /\ task' = [task EXCEPT ![t].pc = "write"]
    /\ UNCHANGED <<appT, tablesT, liveT, wsT, evHist, mdT, connT, maintT>>

\* Database.upsert_node from `async with aiosqlite.connect` to the commit,
\* then the broadcast of process_meshtastic_data.  The row is built from
\* the task's node and the session id tracked now; session_id is NOT NULL,
\* so without a tracked session the statement raises and nothing is stored.
upsert_node_write(t) ==
    /\ task[t].op = "node_info"
    /\ task[t].pc = "write"
    /\ LET node == task[t].node
           exc == IF current_session_id = None THEN "DatabaseError"
                  ELSE "none"
           b == Sent(task[t].event, exc, websocket_clients, inbox)
       IN /\ IF exc = "none"
             THEN /\ nodes' = Put(nodes, node.id,
                                  node @@ [session_id |-> current_session_id])
                  /\ nodes_history' = Append(nodes_history,
                         [node_id |-> node.id,
                          session_id |-> current_session_id,
                          hop_count |-> node.hop_count])
             ELSE UNCHANGED <<nodes, nodes_history>>
          /\ websocket_clients' = b.clients
          /\ inbox' = b.inbox
          /\ last' = [event |-> task[t].event, exc |-> exc,
                      clients_before |-> websocket_clients,
                      alive_before |-> {c \in ClientIds : ws[c].alive},
                      delivered |-> [c \in ClientIds |->
                                        Suffix(b.inbox[c], inbox[c])],
                      clients_after |-> b.clients,
                      failed_before |-> last.failed_before +
                                        (IF last.exc \in {"none", "init"}
                                         THEN 0 ELSE 1)]
    /\ task' = [task EXCEPT ![t] = Idle]
    /\ UNCHANGED <<sessT, sessHist, appT, text_messages, mesh_packets,
                   links_table, liveT, ws, seen, n_events, escaped, known,
                   mdT, connT, maintT>>

NextTasks ==
    \/ startup_event
    \/ \E t \in Tasks, d \in TaskEvents : node_info_begin(t, d)
    \/ \E t \in Tasks : upsert_node_autostart(t)
    \/ \E t \in Tasks : upsert_node_write(t)
    \/ \E t \in Tasks : start_new_session_end(t)
    \/ \E t \in Tasks : end_session_clear(t)
    \/ \E t \in Tasks : start_new_session_start(t)
    \/ \E t \in Tasks : start_new_session_get(t)

SpecTasks == Init /\ [][NextTasks]_vars

-----------------------------------------------------------------------------
(* Events handled on the radio's thread.  When on_receive is not called on *)
(* the server's event loop, asyncio.get_event_loop() raises RuntimeError   *)
(* (or gives a loop that is not running) and the connector runs the        *)
(* callback with asyncio.run on the calling thread: the handler then runs  *)
(* in parallel with the server's coroutines, one event after the other,    *)
(* and no lock guards state.live_nodes.                                    *)

\* the thread that calls on_receive
RadioThread == "t1"

\* the connection that registers meanwhile
ThreadClients == {"c1"}

ThreadEvents ==
    {NodeInfoFull(1, -70), NodeInfoFull(2, -70), TelemetryFull(1, -90)}

\* ws as a send from the radio's thread finds it: such a send either works
\* like one from the server's loop or raises for every connection
SendsFrom(sendok) ==
    [c \in ClientIds |-> [alive |-> ws[c].alive /\ sendok]]

\* the end of process_meshtastic_data where its handler ran: the handler's
\* result r becomes the state and the event is broadcast
EventDone(d, r, sendok) ==
    LET b == BroadcastEach(Broadcasts(d, r.exc), websocket_clients, inbox,
                           SendsFrom(sendok))
    IN /\ Store(r)
       /\ websocket_clients' = b.clients
       /\ inbox' = b.inbox
       /\ last' = [event |-> d, exc |-> r.exc,
                   clients_before |-> websocket_clients,
                   alive_before |-> {c \in ClientIds : ws[c].alive},
                   delivered |-> [c \in ClientIds |->
                                     Suffix(b.inbox[c], inbox[c])],
                   clients_after |-> b.clients,
                   failed_before |-> last.failed_before +
                                     (IF last.exc \in {"none", "init"}
                                      THEN 0 ELSE 1)]
       /\ escaped' = (escaped \/ (r.exc # "none" /\ ~Catches(r.exc)))
       /\ known' = KnownAfter(known, d, r)

\* handle_telemetry changes the node object that live_nodes holds field by
\* field; every other handler builds its object first and stores it with
\* one assignment
InPlace(d) == d.type = "telemetry" /\ d.id \in DOMAIN live_nodes

\* asyncio.run(self.on_data_callback(data)) for an event whose handler
\* stores its result with one assignment
thread_event(d, dbok, sendok) ==
    /\ meshtastic = "connected"
    /\ task[RadioThread] = Idle
    /\ n_events < MaxEvents
    /\ ~InPlace(d)
    /\ EventDone(d, Dispatch(Here, d, dbok), sendok)
    /\ n_events' = n_events + 1
    /\ UNCHANGED <<appT, task, ws, seen, mdT, connT, maintT>>

\* handle_telemetry on the radio's thread, up to and including
\*   node.battery_level = device_metrics.get("batteryLevel")
thread_telemetry_begin(d) ==
    /\ meshtastic = "connected"
    /\ task[RadioThread] = Idle
    /\ n_events < MaxEvents
    /\ InPlace(d)
    /\ live_nodes' = [live_nodes EXCEPT
                         ![d.id].battery_level = Get(d.battery_level)]
    /\ task' = [task EXCEPT ![RadioThread] =
                  [op |-> "telemetry", pc |-> "voltage", event |-> d]]
    /\ n_events' = n_events + 1
    /\ UNCHANGED <<sessT, sessHist, appT, tablesT, live_messages,
                   network_links, wsT, last, escaped, known, mdT, connT, maintT>>

\* handle_telemetry from node.voltage = ... to its end, then the broadcast
thread_telemetry_rest(dbok, sendok) ==
    /\ task[RadioThread].op = "telemetry"
    /\ EventDone(task[RadioThread].event,
                  Dispatch(Here, task[RadioThread].event, dbok), sendok)
    /\ task' = [task EXCEPT ![RadioThread] = Idle]
    /\ UNCHANGED <<appT, ws, seen, n_events, mdT, connT, maintT>>

\* websocket_endpoint on the server's loop while the radio's thread runs:
\* the connection is appended and the list comprehension over
\* state.live_nodes.values() takes its first node; used is the size the
\* dict iterator remembers, left the keys it has not reached.  Which key
\* comes first is the order of insertion.
ws_iter_begin(c, first) ==
    /\ ws[c].pc = "accepted"
    /\ first \in DOMAIN live_nodes
    /\ websocket_clients' = Append(websocket_clients, c)
    /\ ws' = [ws EXCEPT ![c] =
                [pc |-> "iterating", alive |-> ws[c].alive,
                 used |-> Cardinality(DOMAIN live_nodes),
                 got |-> {live_nodes[first]},
                 left |-> DOMAIN live_nodes \ {first}]]
    /\ UNCHANGED <<sessT, sessHist, appT, tablesT, liveT, inbox, seen, task,
                   evHist, mdT, connT, maintT>>

\* the rest of the iteration, the messages, the links and the send.  The
\* iterator raises RuntimeError when the dict has changed size; that and a
\* failing send end in `except Exception`, which removes the connection.
ws_iter_end(c) ==
    /\ ws[c].pc = "iterating"
    /\ IF /\ ws[c].alive
          /\ Cardinality(DOMAIN live_nodes) = ws[c].used
          /\ ws[c].left \subseteq DOMAIN live_nodes
       THEN /\ inbox' = [inbox EXCEPT ![c] = Append(@, JsonDumps(
                           [InitialState EXCEPT !.nodes =
                               ws[c].got \cup
                               {live_nodes[n] : n \in ws[c].left}]))]
            /\ ws' = [ws EXCEPT ![c] = [pc |-> "open", alive |-> TRUE]]
            /\ UNCHANGED websocket_clients
       ELSE /\ websocket_clients' =
                  IF c \in Range(websocket_clients)
                  THEN RemoveFirst(websocket_clients, c)
                  ELSE websocket_clients
            /\ ws' = [ws EXCEPT ![c] =
                        [pc |-> "closed", alive |-> ws[c].alive]]
            /\ UNCHANGED inbox
    /\ seen' = [seen EXCEPT ![c] = <<LiveNow>>]
    /\ UNCHANGED <<sessT, sessHist, appT, tablesT, liveT, task, evHist, mdT,
                   connT, maintT>>

NextThreads ==
    \/ startup_event
    \/ \E d \in ThreadEvents, dbok, sendok \in BOOLEAN :
           thread_event(d, dbok, sendok)
    \/ \E d \in ThreadEvents : thread_telemetry_begin(d)
    \/ \E dbok, sendok \in BOOLEAN : thread_telemetry_rest(dbok, sendok)
    \/ \E c \in ThreadClients : ws_accept(c)
    \/ \E c \in ThreadClients : ws_register(c)
    \/ \E c \in ThreadClients, n \in NodeIds : ws_iter_begin(c, n)
    \/ \E c \in ThreadClients : ws_iter_end(c)
    \/ \E c \in ThreadClients : ws_break(c)

SpecThreads == Init /\ [][NextThreads]_vars

-----------------------------------------------------------------------------
(* A subscriber that stops reading.  client.send_text has no timeout: the  *)
(* await returns when the peer has taken the frame, and never when the     *)
(* peer has stopped reading without closing.                               *)

\* the peer of connection c stops reading
ws_stall(c) ==
    /\ ws[c].pc = "open"
    /\ ws' = [ws EXCEPT ![c].pc = "stalled"]
    /\ UNCHANGED <<sessT, sessHist, appT, tablesT, liveT, websocket_clients,
                   inbox, seen, task, evHist, mdT, connT, maintT>>

\* the connection the broadcast of task t sends to next, if any
NextClient(t) ==
    IF task[t].op = "broadcast" /\ task[t].i <= Len(websocket_clients)
    THEN {websocket_clients[task[t].i]} ELSE {}

\* broadcast_to_clients in task t, from one await to the next; the await
\* of a send to a peer that has stopped reading does not return
send_step(t) ==
    /\ \A c \in NextClient(t) : ws[c].pc # "stalled"
    /\ broadcast_step(t)

\* the event loop runs every task that can run: an event that has arrived
\* is handled, a broadcast whose await has returned goes on
NextStall ==
    \/ \E t \in Tasks : handle_event(t, TRUE)
    \/ \E t \in Tasks : send_step(t)
    \/ \E c \in FanoutClients : ws_accept(c)
    \/ \E c \in FanoutClients : ws_register(c)
    \/ \E c \in FanoutClients : ws_stall(c)

SpecStall ==
    /\ InitFanout
    /\ [][NextStall]_vars
    /\ \A t \in Tasks : WF_vars(send_step(t))

-----------------------------------------------------------------------------
(* The live message list at its limit: the state after startup and         *)
(* RingLen events, 99 of them text messages, and then more events next to  *)
(* session resets.                                                         *)

\* the replay of the stream, continued in three runs
Ring75 == ReplayFrom(Replayed, ReplayLen + 1, 75)
Ring95 == ReplayFrom(Ring75, 76, 95)
RingReplayed == ReplayFrom(Ring95, 96, RingLen)

InitRing ==
    LET r == RingReplayed IN
    /\ sessions = r.sessions
    /\ sqlite_sequence = r.sqlite_sequence
    /\ current_session_id = r.current_session_id
    /\ nodes = r.nodes
    /\ nodes_history = r.nodes_history
    /\ text_messages = r.text_messages
    /\ mesh_packets = r.mesh_packets
    /\ links_table = r.links_table
    /\ meshtastic = "connected"
    /\ current_session = 1
    /\ live_nodes = r.live_nodes
    /\ live_messages = r.live_messages
    /\ network_links = r.network_links
    /\ websocket_clients = <<>>
    /\ task = [t \in Tasks |-> Idle]
    /\ ws = [c \in ClientIds |-> [pc |-> "new", alive |-> TRUE]]
    /\ inbox = [c \in ClientIds |-> <<>>]
    /\ seen = [c \in ClientIds |-> <<>>]
    /\ ever_ids = {1}
    /\ superseded = {}
    /\ n_events = RingLen
    /\ last = [NoEvent EXCEPT !.event = FanoutStream(RingLen), !.exc = "none"]
    /\ escaped = FALSE
    /\ known = KnownAfter(EmptyDict, FanoutStream(1), r)
    /\ md_sessions = {}
    /\ md_superseded = {}
    /\ md_packets = 0
    /\ node_links = <<>>
    /\ link_samples = EmptyDict
    /\ node_db = EmptyDict
    /\ rx = NoPacket
    /\ clock = Now
    /\ md_tables = NoRows
    /\ cleanup = NoCleanup
    /\ queried = NoQuery

\* what can arrive as the n-th event: the text of the stream, the same
\* text with a null hop count (rejected by validation), or a node_info
RingEvents(n) ==
    {FanoutStream(n), [FanoutStream(n) EXCEPT !.hop_count = None],
     NodeInfoFull(2, -70)}

\* process_meshtastic_data for the next event
ring_event(d, dbok) ==
    /\ meshtastic = "connected"
    /\ n_events < RingLen + MaxEvents
    /\ current_session_id = None => sqlite_sequence < MaxSessions
    /\ EventDone(d, Dispatch(Here, d, dbok), TRUE)
    /\ n_events' = n_events + 1
    /\ UNCHANGED <<appT, task, ws, seen, mdT, connT, maintT>>

NextRing ==
    \/ \E d \in RingEvents(n_events + 1), dbok \in BOOLEAN :
           ring_event(d, dbok)
    \/ start_new_session

SpecRing == InitRing /\ [][NextRing]_vars

-----------------------------------------------------------------------------
(* Text messages as concurrent tasks.  save_message awaits the connection, *)
(* the INSERT, the UPDATE of the session's counter and the commit one      *)
(* after the other, and reads self.current_session_id anew for the INSERT  *)
(* and for the UPDATE.                                                     *)

\* a connection holds the database's write lock from its first write to
\* its commit; the writes of other connections wait for it
WriteLocked == \E t \in Tasks : task[t].pc = "count"

\* process_meshtastic_data -> handle_text_message -> save_message, up to
\* the first await: the message is in the live list
text_begin(t) ==
    /\ task[t] = Idle
    /\ meshtastic = "connected"
    /\ n_events < MaxEvents
    /\ LET ev == TextMessage(1, 2, n_events + 1)
           r == handle_text_message(Here, ev, FALSE)
       IN /\ live_messages' = r.live_messages
          /\ task' = [task EXCEPT ![t] =
                        [op |-> "text_message",
                         pc |-> IF current_session_id = None
                                THEN "autostart" ELSE "insert",
                         event |-> ev]]
    /\ n_events' = n_events + 1
    /\ UNCHANGED <<sessT, sessHist, appT, tablesT, live_nodes, network_links,
                   wsT, last, escaped, known, mdT, connT, maintT>>

\* Database.save_message: await self.start_session()
save_message_autostart(t) ==
    /\ task[t].op = "text_message"
    /\ task[t].pc = "autostart"
    /\ ~WriteLocked
    /\ sqlite_sequence < MaxSessions
    /\ sessions' = StartSessionRows(sessions, sqlite_sequence + 1)
    /\ sqlite_sequence' = sqlite_sequence + 1
    /\ current_session_id' = sqlite_sequence + 1
    /\ ever_ids' = ever_ids \cup {sqlite_sequence + 1}
    /\ superseded' = superseded \cup ActiveIds(sessions)
    /\ task' = [task EXCEPT ![t].pc = "insert"]
    /\ UNCHANGED <<appT, tablesT, liveT, wsT, evHist, mdT, connT, maintT>>

\* the result of process_meshtastic_data for the event of task t
TextDone(t, exc) ==
    LET b == Sent(task[t].event, exc, websocket_clients, inbox) IN
    /\ websocket_clients' = b.clients
    /\ inbox' = b.inbox
    /\ last' = [event |-> task[t].event, exc |-> exc,
                clients_before |-> websocket_clients,
                alive_before |-> {c \in ClientIds : ws[c].alive},
                delivered |-> [c \in ClientIds |->
                                  Suffix(b.inbox[c], inbox[c])],
                clients_after |-> b.clients,
                failed_before |-> last.failed_before +
                                  (IF last.exc \in {"none", "init"}
                                   THEN 0 ELSE 1)]

\* Database.save_message: INSERT INTO text_messages (session_id, ...) with
\* the session id tracked now.  The column is NOT NULL: without a tracked
\* session the statement raises and the call ends.  Otherwise the row is
\* pending in the connection's transaction.
save_message_insert(t) ==
    /\ task[t].op = "text_message"
    /\ task[t].pc = "insert"
    /\ ~WriteLocked
    /\ IF current_session_id = None
       THEN /\ TextDone(t, "DatabaseError")
            /\ task' = [task EXCEPT ![t] = Idle]
       ELSE /\ task' = [task EXCEPT ![t] =
                          [op |-> "text_message", pc |-> "count",
                           event |-> task[t].event,
                           row |-> [session_id |-> current_session_id,
                                    from_id |-> task[t].event.id,
                                    message |-> task[t].event.message,
                                    hop_count |-> 0]]]
            /\ UNCHANGED <<websocket_clients, inbox, last>>
    /\ UNCHANGED <<sessT, sessHist, appT, tablesT, liveT, ws, seen, n_events,
                   escaped, known, mdT, connT, maintT>>

\* Database.save_message: UPDATE sessions SET message_count =
\* message_count + 1 WHERE id = ? with the session id tracked now, and the
\* commit of both statements; then the broadcast.
save_message_count(t) ==
    /\ task[t].op = "text_message"
    /\ task[t].pc = "count"
    /\ text_messages' = Append(text_messages, task[t].row)
    /\ sessions' = {IF r.id = current_session_id
                    THEN [r EXCEPT !.message_count = @ + 1] ELSE r :
                    r \in sessions}
    /\ TextDone(t, "none")
    /\ task' = [task EXCEPT ![t] = Idle]
    /\ UNCHANGED <<sqlite_sequence, current_session_id, sessHist, appT, nodes,
                   nodes_history, mesh_packets, links_table, liveT, ws, seen,
                   n_events, escaped, known, mdT, connT, maintT>>

\* a session operation of another task: its statements wait for the lock
Unlocked(A) == ~WriteLocked /\ A

NextCount ==
    \/ startup_event
    \/ \E t \in Tasks : text_begin(t)
    \/ \E t \in Tasks : save_message_autostart(t)
    \/ \E t \in Tasks : save_message_insert(t)
    \/ \E t \in Tasks : save_message_count(t)
    \/ \E t \in Tasks : Unlocked(end_session_update(t))
    \/ \E t \in Tasks : end_session_clear(t)
    \/ \E t \in Tasks : Unlocked(start_new_session_end(t))
    \/ \E t \in Tasks : Unlocked(start_new_session_start(t))
    \/ \E t \in Tasks : start_new_session_get(t)

SpecCount == Init /\ [][NextCount]_vars

-----------------------------------------------------------------------------
(* Traffic of the local node: packets the radio reports with its own id as *)
(* sender, through the connector and pipeline and into MeshtasticDB.       *)

\* packets of the local node, one of them without a sender, and a packet
\* of another node, as on_receive gets them
LocalRawPackets ==
    {RawPacket(Missing, Missing, "NODEINFO_APP", Missing, Missing, Missing),
     [RawPacket(local_node_id, 2, "TEXT_MESSAGE_APP", 3, 3, -70)
         EXCEPT !.text = 7],
     [RawPacket(1, local_node_id, "NODEINFO_APP", 3, 2, -70)
         EXCEPT !.shortName = 11]}

\* the same traffic as MeshPacket objects for MeshtasticDB.insert_packet
LocalPackets ==
    {Packet(local_node_id, 2, -70, 5, 3), Packet(1, local_node_id, -70, 5, 2)}

NextLocal ==
    \/ startup_event
    \/ \E p \in LocalRawPackets : on_receive(p, TRUE)
    \/ \E p \in LocalPackets, ok \in BOOLEAN : insert_packet(p, ok)

SpecLocal == Init /\ [][NextLocal]_vars

-----------------------------------------------------------------------------
(* MeshtasticDB.cleanup_old_data next to the inserts of other connections. *)
(* Every method opens a connection of its own.  The SELECT COUNT on the    *)
(* first table runs outside a transaction; the first DELETE opens the     *)
(* write transaction, which lasts until conn.commit() and keeps every     *)
(* other writer out.                                                       *)

\* the moments at which something happens
CleanupInstants == {2, 3, Day + 2, Day + 4}

\* the retention windows asked for
CleanupDays == {0, 1}

\* time passes
tick(t) ==
    /\ t > clock
    /\ clock' = t
    /\ UNCHANGED <<sessT, sessHist, appT, tablesT, liveT, wsT, task, evHist,
                   mdT, connT, md_tables, cleanup, queried>>

\* INSERT INTO <tbl> (..., timestamp) VALUES (..., int(time.time()))
InsertRow(tbl) ==
    /\ Len(md_tables[tbl]) < MaxRows
    /\ md_tables' = [md_tables EXCEPT ![tbl] = Append(@, int(clock))]
    /\ UNCHANGED <<sessT, sessHist, appT, tablesT, liveT, wsT, task, evHist,
                   mdT, connT, clock, cleanup, queried>>

\* MeshtasticDB.insert_position with a latitude and a longitude: the row of
\* position_history
insert_position == InsertRow("position_history")

\* MeshtasticDB.insert_text_message
insert_text_message == InsertRow("text_messages")

\* SELECT COUNT(*) FROM <tbl> WHERE timestamp < ?
CountOld(rows, cutoff_time) ==
    Len(SelectSeq(rows, LAMBDA ts : ts < cutoff_time))

\* DELETE FROM <tbl> WHERE timestamp < ?: the rows that stay
DeleteOld(rows, cutoff_time) ==
    SelectSeq(rows, LAMBDA ts : ts >= cutoff_time)

\* cleanup_old_data(days) up to the first DELETE: the cutoff and the
\* count_before of the first table
cleanup_begin(days) ==
    /\ cleanup.pc = "idle"
    /\ LET cutoff_time == int(clock) - days * 86400
       IN cleanup' = [pc |-> "counted", cutoff_time |-> cutoff_time,
                      count_before |->
                          CountOld(md_tables[MdTables[1]], cutoff_time),
                      at_delete |-> NoRows, deleted_counts |-> EmptyDict]
    /\ UNCHANGED <<sessT, sessHist, appT, tablesT, liveT, wsT, task, evHist,
                   mdT, connT, clock, md_tables, queried>>

\* cleanup_old_data from the first DELETE to conn.commit(): per table
\*   deleted_counts[table] = count_before - (SELECT COUNT(*) FROM table)
cleanup_finish ==
    /\ cleanup.pc = "counted"
    /\ LET cutoff_time == cleanup.cutoff_time
           count_before(tbl) ==
               IF tbl = MdTables[1] THEN cleanup.count_before
               ELSE CountOld(md_tables[tbl], cutoff_time)
           left == [tbl \in Range(MdTables) |->
                        DeleteOld(md_tables[tbl], cutoff_time)]
       IN /\ md_tables' = left
          /\ cleanup' = [cleanup EXCEPT
                            !.pc = "idle", !.at_delete = md_tables,
                            !.deleted_counts =
                                [tbl \in Range(MdTables) |->
                                     count_before(tbl) - Len(left[tbl])]]
    /\ UNCHANGED <<sessT, sessHist, appT, tablesT, liveT, wsT, task, evHist,
                   mdT, connT, clock, queried>>

NextCleanup ==
    \/ \E t \in CleanupInstants : tick(t)
    \/ insert_position
    \/ insert_text_message
    \/ \E days \in CleanupDays : cleanup_begin(days)
    \/ cleanup_finish

SpecCleanup == Init /\ [][NextCleanup]_vars

-----------------------------------------------------------------------------
(* Database.get_active_nodes while nodes are heard and time passes.        *)

\* the moments at which something happens: 1.0 s, 300.0 s, 300.5 s and
\* 301.5 s
ActiveInstants == {2, 600, 601, 603}

\* the values of since_seconds asked for
ActiveWindows == {299, 300}

\* a node_info event of this moment: "timestamp": datetime.now()
ActiveEvents == {[NodeInfoFull(id, -70) EXCEPT !.timestamp = clock] :
                     id \in NodeIds}

\* the column nodes.last_heard: int(node.last_heard.timestamp())
LastHeardColumn(row) == int(row.last_heard)

\* SELECT * FROM nodes WHERE session_id = ? AND last_heard > ?
ActiveRows(rows, session_id, cutoff) ==
    {id \in DOMAIN rows : /\ rows[id].session_id = session_id
                          /\ LastHeardColumn(rows[id]) > cutoff}

\* ORDER BY last_heard DESC: the orders SQLite may return the rows in
OrderedDesc(rows, ids) ==
    {q \in [1..Cardinality(ids) -> ids] :
        /\ \A i, j \in DOMAIN q : i # j => q[i] # q[j]
        /\ \A i, j \in DOMAIN q :
               i < j => LastHeardColumn(rows[q[i]]) >=
                        LastHeardColumn(rows[q[j]])}

\* Database.get_active_nodes(since_seconds): [] without a tracked session,
\* otherwise cutoff = int((datetime.now() - timedelta(...)).timestamp())
\* and the rows of the tracked session heard after it.  The clock of a
\* real machine is far from the epoch: now - since_seconds is not negative.
get_active_nodes(since_seconds) ==
    /\ clock >= since_seconds * Second
    /\ LET cutoff == int(clock - since_seconds * Second)
           ids == ActiveRows(nodes, current_session_id, cutoff)
       IN \E q \in OrderedDesc(nodes, ids) :
              queried' = [asked |-> TRUE, now |-> clock,
                          since_seconds |-> since_seconds,
                          session |-> current_session_id, rows |-> nodes,
                          result |-> IF current_session_id = None
                                     THEN <<>> ELSE q]
    /\ UNCHANGED <<sessT, sessHist, appT, tablesT, liveT, wsT, task, evHist,
                   mdT, connT, clock, md_tables, cleanup>>

NextActive ==
    \/ startup_event
    \/ \E t \in ActiveInstants : tick(t)
    \/ \E d \in ActiveEvents : process_meshtastic_data(d, TRUE)
    \/ start_new_session
    \/ shutdown_event
    \/ \E w \in ActiveWindows : get_active_nodes(w)

SpecActive == Init /\ [][NextActive]_vars

-----------------------------------------------------------------------------
(* The end-to-end scenario: three events in a fixed order, handled one     *)
(* after the other while subscribers come and go.                          *)

\* node_info for node 1, telemetry for node 1 heard at -70 dBm, and a link
\* from node 1 to node 2 seen one hop away
EndToEnd ==
    <<Event("node_info", 1),
      [Event("telemetry", 1) EXCEPT !.rssi = -70],
      [Event("network_link", 1) EXCEPT !.to_id = 2, !.hop_count = 1]>>

\* process_meshtastic_data for the next event of the scenario
feed(dbok) ==
    /\ meshtastic = "connected"
    /\ n_events < Len(EndToEnd)
    /\ current_session_id = None => sqlite_sequence < MaxSessions
    /\ EventDone(EndToEnd[n_events + 1],
                 Dispatch(Here, EndToEnd[n_events + 1], dbok), TRUE)
    /\ n_events' = n_events + 1
    /\ UNCHANGED <<appT, task, ws, seen, mdT, connT, maintT>>

NextEndToEnd ==
    \/ startup_event
    \/ \E dbok \in BOOLEAN : feed(dbok)
    \/ \E c \in FanoutClients : websocket_endpoint(c)
    \/ \E c \in FanoutClients : ws_disconnect(c)

SpecEndToEnd == Init /\ [][NextEndToEnd]_vars

-----------------------------------------------------------------------------
(* MeshtasticConnector.process_generic_packet: the payload of the generic  *)
(* record made from a packet of a kind on_receive does not know.           *)

\* the fields such a packet may carry next to its portnum
GenericKeys == {"payload", "routing", "requestId"}

\* a value of each Python type a field may hold
Value(kind) == [kind |-> kind, v |-> 1]

Scalars == {"str", "int", "float", "bool", "NoneType"}

GenericValues ==
    {Value(k) : k \in Scalars \cup {"list", "dict", "bytes", "object"}}

\* str(value): a string other than the one Value("str") stands for, and a
\* different one for each type
Str(value) ==
    [kind |-> "str",
     v |-> [list |-> 2, dict |-> 3, bytes |-> 4, object |-> 5][value.kind]]

\* the packets: portnum names an unknown kind, every other field is absent
\* or holds one of the values
GenericPackets ==
    UNION {[ks \cup {"portnum"} -> GenericValues] :
           ks \in SUBSET GenericKeys}

\* process_generic_packet: safe_payload
safe_payload(packet) ==
    LET kept == {key \in DOMAIN packet :
                     packet[key].kind \in Scalars \cup {"list", "dict"}}
    IN [key \in kept |-> IF packet[key].kind \in Scalars THEN packet[key]
                         ELSE Str(packet[key])]

\* process_generic_packet(packet, from_id, to_id)
process_generic_packet(packet) ==
    /\ packet["portnum"] = Value("str")
    /\ rx' = <<[packet |-> packet,
                data |-> [type |-> "mesh_packet",
                          packet_type |-> packet["portnum"],
                          payload |-> safe_payload(packet),
                          timestamp |-> clock]]>>
    /\ UNCHANGED <<sessT, sessHist, appT, tablesT, liveT, wsT, task, evHist,
                   mdT, node_db, maintT>>

NextGeneric == \E packet \in GenericPackets : process_generic_packet(packet)

SpecGeneric == Init /\ [][NextGeneric]_vars
-----------------------------------------------------------------------------
\* C1: in every reachable state of either session store at most one session
\* row is active, whatever the interleaving of starts, ends and auto-starts.
C1_AtMostOneActive ==
    /\ Cardinality(ActiveIds(sessions)) <= 1
    /\ Cardinality(MdActiveIds(md_sessions)) <= 1

\* C1 witness: both stores have started a session over an active one and
\* hold exactly one active row, while a save is in flight.
C1_Witness ==
    /\ superseded # {} /\ Cardinality(ActiveIds(sessions)) = 1
    /\ md_superseded # {} /\ Cardinality(MdActiveIds(md_sessions)) = 1
    /\ \E t \in Tasks : task[t].op = "save_packet"

\* C2: a start over an active session S leaves S stored, inactive and with
\* an end time, exactly one session active, and that one a new row whose id
\* was never used before.
C2_StartSupersedes ==
    [][ (sqlite_sequence' # sqlite_sequence) =>
          /\ \A i \in ActiveIds(sessions) :
                \E r \in sessions' :
                    r.id = i /\ ~r.is_active /\ r.ended_at # None
          /\ Cardinality(ActiveIds(sessions')) = 1
          /\ ActiveIds(sessions') \cap (ever_ids \cup ActiveIds(sessions)) = {}
      ]_vars

\* C2 witness: a session that was active when a start ran is stored as
\* ended, next to the new active session.
C2_Witness ==
    \E r \in sessions :
        /\ r.id \in superseded /\ ~r.is_active /\ r.ended_at # None
        /\ \E a \in sessions : a.is_active /\ a.id > r.id

\* C3: once an event has been handled without error, every attribute of a
\* live node equals the most recent non-null value an applied event
\* supplied for it; an event that omits a field never puts null in the
\* place of a known value.
C3_LatestNonNullKept ==
    last.exc = "none" =>
    \A n \in DOMAIN known \cap DOMAIN live_nodes :
        /\ \A f \in IntFields :
              known[n][f] # None => live_nodes[n][f] = known[n][f]
        /\ known[n].role # "None" => live_nodes[n].role = known[n].role

\* C4: no exception leaves process_meshtastic_data, whatever the event and
\* whether or not the database write fails; every failure is one the
\* handler's except clause catches.
C4_NoExceptionEscapes ==
    /\ ~escaped
    /\ last.exc \notin {"none", "init"} => Catches(last.exc)

\* C4 witness: an event was handled to the end after an earlier event had
\* raised inside its handler.
C4_Witness ==
    /\ last.exc = "none"
    /\ last.failed_before > 0
    /\ last.event.type \in {"node_info", "telemetry", "text_message"}

\* C5: an event handled without an exception is followed by exactly one
\* message to each subscriber that is registered and reachable, of the
\* event's kind and carrying its cleaned payload; an event whose handling
\* raised is followed by no message at all.
C5_OneBroadcastPerEvent ==
    last.exc # "init" =>
        \A c \in ClientIds :
            last.delivered[c] =
                IF /\ last.exc = "none"
                   /\ c \in Range(last.clients_before)
                   /\ c \in last.alive_before
                THEN <<JsonDumps([type |-> last.event.type,
                                 data |-> JsonClean(last.event)])>>
                ELSE <<>>

\* C5 witness: a text message was handled and reached a subscriber, which
\* holds the snapshot and then the notification.
C5_Witness ==
    /\ last.exc = "none"
    /\ last.event.type = "text_message"
    /\ \E c \in ClientIds :
          /\ Len(last.delivered[c]) = 1
          /\ Len(inbox[c]) = 2
          /\ inbox[c][2][2].type = "text_message"

\* C6: when sends to some subscribers fail during a broadcast, every other
\* registered subscriber receives the message exactly once and stays
\* registered, and every failing subscriber is removed.
C6_FailureIsolated ==
    last.exc = "none" =>
        \A c \in Range(last.clients_before) :
            IF c \in last.alive_before
            THEN /\ Len(last.delivered[c]) = 1
                 /\ c \in Range(last.clients_after)
            ELSE /\ last.delivered[c] = <<>>
                 /\ c \notin Range(last.clients_after)

\* C6 witness: three subscribers were registered, the send to the first of
\* them failed, and the two behind it got the message and stayed.
C6_Witness ==
    /\ last.exc = "none"
    /\ Len(last.clients_before) = 3
    /\ last.clients_before[1] \notin last.alive_before
    /\ Len(last.clients_after) = 2
    /\ \A c \in Range(last.clients_after) : Len(last.delivered[c]) = 1

\* the snapshot a connection is owed for the live state v it registered in
ExpectedSnapshot(v) ==
    [type |-> "initial_state",
     session |-> v.session,
     nodes |-> {v.live_nodes[n] : n \in DOMAIN v.live_nodes},
     messages |-> [i \in 1..(IF Len(v.live_messages) < 50
                             THEN Len(v.live_messages) ELSE 50) |->
                     v.live_messages[i + (IF Len(v.live_messages) < 50 THEN 0
                                          ELSE Len(v.live_messages) - 50)]],
     links |-> {v.network_links[k] : k \in DOMAIN v.network_links}]

RECURSIVE SumOf(_, _)
SumOf(samples, f) ==
    IF samples = <<>> THEN 0 ELSE Head(samples)[f] + SumOf(Tail(samples), f)

LinkKey(row) == <<row.session_id, row.from_node, row.to_node>>

C10_BucketForEveryRssi ==
    \A n \in DOMAIN live_nodes :
        live_nodes[n].signal_quality =
            IF live_nodes[n].rssi = None THEN "None"
            ELSE IF live_nodes[n].rssi > -75 THEN "excellent"
            ELSE IF live_nodes[n].rssi > -85 THEN "good"
            ELSE IF live_nodes[n].rssi > -95 THEN "weak"
            ELSE "poor"


-----------------------------------------------------------------------------
(* Hop count and directness                                                *)

\* C11: no link of the live link map or of the link table is direct when
\* the event that last updated it carried no known hop count; a
\* network_link event without an is_direct field is such an event.
C11_NoDirectWithoutHops ==
    (/\ last.event.type = "network_link"
     /\ last.exc = "none"
     /\ Get(last.event.hop_count) = None)
    => /\ network_links[<<last.event.id, last.event.to_id>>].is_direct # 1
       /\ links_table[<<current_session_id, last.event.id,
                        last.event.to_id>>].is_direct # 1

\* C12: a node, message or packet record made from an event without a
\* known hop count never carries hop_count 0, in live state or in the
\* tables.
C12_NoFabricatedZeroHops ==
    (last.exc = "none" /\ Get(last.event.hop_count) = None)
    => /\ last.event.type = "node_info" =>
              /\ live_nodes[last.event.id].hop_count # 0
              /\ nodes[last.event.id].hop_count # 0
       /\ last.event.type = "text_message" =>
              /\ live_messages[Len(live_messages)].hop_count # 0
              /\ text_messages[Len(text_messages)].hop_count # 0
       /\ last.event.type = "mesh_packet" =>
              mesh_packets[Len(mesh_packets)].hop_count # 0

\* C13: the link made from a received packet is direct exactly when the
\* packet's hop count is known and at most 1.
C13_DirectIffAtMostOneHop ==
    (rx # NoPacket /\ rx[1].linked /\ rx[1].link_exc = "none")
    => (network_links[<<rx[1].link.id, rx[1].link.to_id>>].is_direct = 1
        <=> (rx[1].hop_count # None /\ rx[1].hop_count <= 1))

\* C14: a telemetry packet from a node that live state does not hold adds
\* a placeholder node to live state and (the database taking writes) to
\* the nodes table; its hop count is 999 when the packet's is unknown.
C14_TelemetryPlaceholder ==
    (rx # NoPacket /\ rx[1].data.type = "telemetry" /\ ~rx[1].known_before)
    => /\ rx[1].data.id \in DOMAIN live_nodes
       /\ last.exc # "DatabaseError" => rx[1].data.id \in DOMAIN nodes
       /\ rx[1].hop_count = None =>
              live_nodes[rx[1].data.id].hop_count = 999

-----------------------------------------------------------------------------
(* Unknown references and failures                                         *)

\* C15: a position_update for a node that the live node map does not hold
\* changes neither the live maps and list nor any table, and starts no
\* session.
C15_UnknownPositionIsNoOp ==
    [][(/\ n_events' = n_events + 1
        /\ last'.event.type = "position_update"
        /\ last'.event.id \notin {Missing, None}
        /\ last'.event.id \notin DOMAIN live_nodes)
       => UNCHANGED <<liveT, tablesT, sessT>>]_vars

C15_Witness ==
    /\ last.event.type = "position_update"
    /\ last.exc = "none"
    /\ last.event.id \notin DOMAIN live_nodes
    /\ live_nodes # EmptyDict
    /\ nodes # EmptyDict

\* C16: an event whose handler fails on a missing field or on validation
\* leaves the live node map, message list and link map as they were
\* before the event.
C16_FailedEventIsNoOp ==
    [][(/\ n_events' = n_events + 1
        /\ last'.exc \in {"KeyError", "TypeError", "ValidationError",
                          "AttributeError"})
       => UNCHANGED liveT]_vars

\* C17: when the database write of an event fails, live state holds the
\* whole update the event makes when the write succeeds, the failure is
\* caught and recorded, and an event handled after a failure is written
\* to live state and table alike.
C17_LiveKeptOnWriteFailure ==
    /\ [][(n_events' = n_events + 1 /\ last'.exc = "DatabaseError")
          => /\ Dispatch(Here, last'.event, TRUE).exc = "none"
             /\ live_nodes' = Dispatch(Here, last'.event, TRUE).live_nodes
             /\ live_messages' =
                    Dispatch(Here, last'.event, TRUE).live_messages
             /\ network_links' =
                    Dispatch(Here, last'.event, TRUE).network_links
             /\ ~escaped']_vars
    /\ []((/\ last.exc = "none"
           /\ last.failed_before > 0
           /\ last.event.type = "node_info"
           /\ last.event.id \in DOMAIN live_nodes)
          => /\ last.event.id \in DOMAIN nodes
             /\ \A f \in DOMAIN live_nodes[last.event.id] :
                    nodes[last.event.id][f] = live_nodes[last.event.id][f])

C17_Witness ==
    /\ last.exc = "DatabaseError"
    /\ last.event.type = "node_info"
    /\ last.event.id \in DOMAIN live_nodes
    /\ last.event.id \notin DOMAIN nodes
    /\ last.failed_before > 0

-----------------------------------------------------------------------------
(* Sessions and live state under concurrent tasks                          *)

\* C18: a packet write issued while no session is tracked, having started
\* a session, stores its row, and the row carries the id of a session
\* that is active when the write commits.
C18_WriteWithoutSessionSucceeds ==
    [][\A t \in Tasks :
          (/\ task[t] = [op |-> "save_packet", pc |-> "insert_started"]
           /\ task'[t] = Idle)
          => /\ Len(mesh_packets') = Len(mesh_packets) + 1
             /\ mesh_packets'[Len(mesh_packets')].session_id
                    \in ActiveIds(sessions')]_vars

\* C19: a live node whose row has been written was written under the
\* session that is tracked now: live state holds nothing of an earlier
\* session.
C19_LiveBelongsToActiveSession ==
    \A id \in DOMAIN live_nodes :
        (/\ current_session_id # None
         /\ id \in DOMAIN nodes
         /\ nodes[id].last_heard = live_nodes[id].last_heard)
        => nodes[id].session_id = current_session_id

\* C20: a write never replaces the row of a node by a record older than
\* the one it holds.
C20_NoStaleOverwrite ==
    [][\A id \in DOMAIN nodes :
          /\ id \in DOMAIN nodes'
          /\ nodes'[id].last_heard >= nodes[id].last_heard]_vars
-----------------------------------------------------------------------------
(* In-flight events and session changes                                    *)

\* C21: the rows written for an event whose handling started while session
\* S was tracked carry session id S, also when a session end or a new
\* session start ran between the start of the handler and the write.
C21_RowsCarrySessionAtStart ==
    [][\A t \in Tasks :
          (/\ task[t].op = "node_info"
           /\ task[t].pc = "write"
           /\ task[t].began_in # None
           /\ task'[t] = Idle
           /\ nodes_history' # nodes_history)
          => /\ nodes_history'[Len(nodes_history')].session_id
                    = task[t].began_in
             /\ nodes'[task[t].node.id].session_id = task[t].began_in]_vars

\* C22: battery level and voltage of every node in a snapshot come from
\* one and the same event (a snapshot never shows an event's change of a
\* node half made), and no step changes the live node map while a
\* snapshot is iterating it.
C22_SnapshotAtOnePoint ==
    /\ [](\A c \in ClientIds :
            (inbox[c] # <<>> /\ inbox[c][1][2].type = "initial_state")
            => \A n \in inbox[c][1][2].nodes :
                   \E d \in ThreadEvents :
                       /\ d.id = n.id
                       /\ d.battery_level = n.battery_level
                       /\ d.voltage = n.voltage)
    /\ [][(\E c \in ClientIds : ws[c].pc = "iterating")
          => UNCHANGED live_nodes]_vars

-----------------------------------------------------------------------------
(* Fan-out with a subscriber that stops reading                            *)

\* C23: whichever subscriber stops reading, the notification of every
\* event handled without error is eventually delivered to every other
\* subscriber that was registered when the event was handled.
C23_OthersStillServed ==
    \A c \in FanoutClients :
        \A k \in (ReplayLen + 1)..(ReplayLen + MaxBroadcasts + 1) :
            [](( /\ n_events = k
                 /\ last.exc = "none"
                 /\ c \in Range(last.clients_before)
                 /\ ws[c].pc = "open" )
               => <>( \/ JsonDumps(Notification(FanoutStream(k)))
                             \in Range(inbox[c])
                      \/ ws[c].pc # "open" ))

-----------------------------------------------------------------------------
(* The live message list                                                   *)

\* the live message made from a text_message event
MessageOf(d) ==
    [from_id |-> d.id, to_id |-> d.to_id, message |-> d.message,
     timestamp |-> d.timestamp, rssi |-> Get(d.rssi), snr |-> Get(d.snr),
     hop_count |-> GetOr(d.hop_count, 0)]

\* a step that reconciles a text message
TextReconciled ==
    /\ n_events' = n_events + 1
    /\ last'.event.type = "text_message"
    /\ last'.exc \in {"none", "DatabaseError"}

\* C24: the live message list never holds more than 100 messages; a
\* reconciled text message is added at the end, and when the list is full
\* the message evicted is the oldest; nothing else changes the list but a
\* session reset, which empties it.
C24_Last100InOrder ==
    /\ [](Len(live_messages) <= 100)
    /\ [][IF TextReconciled
          THEN IF Len(live_messages) < 100
               THEN live_messages' =
                        Append(live_messages, MessageOf(last'.event))
               ELSE live_messages' =
                        Append(Tail(live_messages), MessageOf(last'.event))
          ELSE \/ live_messages' = live_messages
               \/ (sqlite_sequence' # sqlite_sequence
                   /\ live_messages' = <<>>)]_vars

\* C24 witness: the list is full, its oldest message is the second text of
\* the session and its newest the 101st: the first has been evicted.
C24_Witness ==
    /\ Len(live_messages) = 100
    /\ live_messages[1].message = FanoutStream(4).message
    /\ live_messages[100].message = FanoutStream(103).message
    /\ last.event.type = "text_message"

-----------------------------------------------------------------------------
(* The session's message counter                                           *)

\* the text-message rows stored for session sid
RowsOf(sid) ==
    {i \in 1..Len(text_messages) : text_messages[i].session_id = sid}

\* C25: in every committed state the message_count of each session row
\* equals the number of text-message rows stored for that session.
C25_CountMatchesRows ==
    \A r \in sessions : r.message_count = Cardinality(RowsOf(r.id))

-----------------------------------------------------------------------------
(* Links and packets                                                       *)

\* C26: no link whose source is the local node is ever held in the live
\* link map or stored in a link table (network_links of the backend,
\* node_links of MeshtasticDB).
C26_NoLinkFromLocalNode ==
    /\ \A k \in DOMAIN network_links : k[1] # local_node_id
    /\ \A k \in DOMAIN links_table : k[2] # local_node_id
    /\ \A i \in 1..Len(node_links) : node_links[i].from_node # local_node_id

-----------------------------------------------------------------------------
(* Stored nodes                                                            *)

\* C28: node rows are keyed by node id and session id: a step never
\* removes or changes the stored row of a node that belongs to a session
\* other than the one written to, and upserting a record that is already
\* stored leaves the nodes table as it is.
C28_NodeRowsPerSession ==
    [][/\ \A id \in DOMAIN nodes :
             nodes[id].session_id # current_session_id'
             => (id \in DOMAIN nodes' /\ nodes'[id] = nodes[id])
       /\ (/\ n_events' = n_events + 1
           /\ last'.exc = "none"
           /\ last'.event = last.event
           /\ last.exc = "none"
           /\ last'.event.type = "node_info"
           /\ last.event.id \in DOMAIN nodes
           /\ nodes[last.event.id].session_id = current_session_id
           /\ current_session_id' = current_session_id)
          => nodes' = nodes]_vars

\* C29: for each table the count cleanup_old_data reports is the number of
\* rows that were older than the cutoff when it deleted, whatever newer rows
\* the table holds or receives meanwhile, and a row whose timestamp is at
\* or after the cutoff is never deleted.
C29_CountIsRowsDeleted ==
    /\ [](cleanup.pc = "idle" /\ cleanup.cutoff_time # None
          => \A tbl \in Range(MdTables) :
                 cleanup.deleted_counts[tbl] =
                     CountOld(cleanup.at_delete[tbl], cleanup.cutoff_time))
    /\ [][\A tbl \in Range(MdTables) :
             \/ Len(md_tables'[tbl]) >= Len(md_tables[tbl])
             \/ /\ cleanup'.pc = "idle"
                /\ SelectSeq(md_tables[tbl],
                             LAMBDA ts : ts >= cleanup'.cutoff_time)
                   = md_tables'[tbl]]_vars

\* C30: get_active_nodes(since_seconds = w) returns exactly the nodes of the
\* tracked session that were last heard less than w seconds before the
\* query, each once, and the empty list when no session is tracked.
C30_ActiveWithinWindow ==
    queried.asked =>
        IF queried.session = None THEN queried.result = <<>>
        ELSE /\ Len(queried.result) = Cardinality(Range(queried.result))
             /\ Range(queried.result) =
                    {id \in DOMAIN queried.rows :
                        /\ queried.rows[id].session_id = queried.session
                        /\ queried.now - queried.rows[id].last_heard
                               < queried.since_seconds * Second}

-----------------------------------------------------------------------------
\* C31: in every reachable state a node's is_online, in live_nodes and in
\* its row of table nodes, is true exactly when the node was last heard
\* within the freshness window of 300 s before the current time.
C31_OnlineIffFresh ==
    /\ \A id \in DOMAIN live_nodes :
           live_nodes[id].is_online
               <=> clock - live_nodes[id].last_heard <= 300 * Second
    /\ \A id \in DOMAIN nodes :
           nodes[id].is_online
               <=> clock - nodes[id].last_heard <= 300 * Second

\* GET /api/session/current: the cached state.current_session, or 404 (None)
\* when nothing is cached; it does not await and does not read the store
get_current_session == current_session

\* C32: the current-session query returns the session that is active in the
\* store at the time of the call, or the none result when no session is
\* active; never a session that was ended or superseded by a later start.
\* The query can be made while the server runs, between startup and
\* shutdown.
C32_CurrentIsActiveInStore ==
    meshtastic = "connected" =>
        /\ get_current_session # None
               => get_current_session \in ActiveIds(sessions)
        /\ get_current_session = None => ActiveIds(sessions) = {}

\* the three events of the end-to-end scenario have been handled, each
\* without an error
EndToEndDone ==
    n_events = Len(EndToEnd) /\ last.exc = "none" /\ last.failed_before = 0

C35_NoFieldDropped ==
    rx # NoPacket =>
        LET packet == rx[1].packet
            payload == rx[1].data.payload
        IN \A key \in DOMAIN packet :
               /\ key \in DOMAIN payload
               /\ payload[key] = IF packet[key].kind \in Scalars
                                 THEN packet[key] ELSE Str(packet[key])

\* C36: the hop_count of the event made from a received packet is
\* hopStart - hopLimit when the packet carries a hopStart above 0 (an
\* absent hopLimit counting as 0), and None, never 0 or another number,
\* when hopStart is absent or not above 0.
C36_HopCountOrUnknown ==
    rx # NoPacket =>
        LET p == rx[1].packet
            hop_count == rx[1].data.hop_count
        IN IF p.hopStart # Missing /\ p.hopStart > 0
           THEN hop_count = p.hopStart -
                            (IF p.hopLimit = Missing THEN 0 ELSE p.hopLimit)
           ELSE hop_count = None

C36_Witness ==
    /\ rx # NoPacket
    /\ rx[1].packet.hopStart = 0
    /\ rx[1].data.hop_count = None
    /\ last.event = rx[1].data

\* C37: the hop value insert_packet folds into a link's mean hop count and
\* uses for the link's directness is the packet's hop count,
\* hop_start - hop_limit, not its remaining hop limit.
C37_LinkFoldsHopCount ==
    \A i \in 1..Len(node_links) :
        LET row == node_links[i]
            S == link_samples[LinkKey(row)]
            newest == S[Len(S)]
        IN /\ row.avg_hop_count =
                  Frac(SumOf(S, "hop_start") - SumOf(S, "hop_limit"), Len(S))
           /\ row.is_direct = (newest.hop_start - newest.hop_limit <= 1)

\* C38: whenever the store tracks a session id, that id is the id of the one
\* session row with is_active = TRUE, also while start_session calls of an
\* auto-start and of a new-session request overlap.
C38_TrackedIsTheActiveRow ==
    current_session_id # None => ActiveIds(sessions) = {current_session_id}

\* how often client c occurs in the sequence q
Occurrences(q, c) == Cardinality({i \in 1..Len(q) : q[i] = c})

\* C39: when subscribers register or unregister while a broadcast waits in
\* a send, every subscriber registered from the call of the broadcast to its
\* end has been sent the notification exactly once, and the removal of the
\* failed subscribers at the end raises nothing.
C39_StayingSubscribersSentOnce ==
    [][\A t \in Tasks :
          (task[t].op = "broadcast" /\ task'[t] = Idle) =>
              /\ \A c \in task[t].began \cap Range(websocket_clients) :
                     Occurrences(task[t].tried, c) = 1
              /\ RemoveEach(websocket_clients, task[t].gone).exc = "none"]_vars

\* the session ids the rows of the sequence or dictionary tbl refer to; a
\* row of links_table has its session id at the head of its key
SessionRefs(tbl) == {tbl[k].session_id : k \in DOMAIN tbl}

\* C40: no start or end of a session deletes an earlier one: every session
\* ever created is stored, an inactive one with its end time, and every
\* node, history, message, packet and link row refers to a stored session.
C40_NoSessionLost ==
    /\ \A i \in ever_ids : \E r \in sessions : r.id = i
    /\ \A r \in sessions : ~r.is_active => r.ended_at # None
    /\ SessionRefs(nodes) \cup SessionRefs(nodes_history)
           \cup SessionRefs(text_messages) \cup SessionRefs(mesh_packets)
           \cup {k[1] : k \in DOMAIN links_table}
        \subseteq {r.id : r \in sessions}
====
